---- MODULE Spec2Model ----
(***************************************************************************)
(* couchdb-promises: a promise based client for the CouchDB HTTP API.      *)
(*                                                                         *)
(* src/index.js holds the two calling styles of the library:               *)
(*   - the free-function style (lines 1-844): every API function takes the *)
(*     base URL and calls the module level request / requestStream;        *)
(*   - the factory style (lines 846-1698): module.exports(opt) captures    *)
(*     the configuration once and returns the object couch, whose methods  *)
(*     call the closure level request / requestStream. Its definitions     *)
(*     carry the prefix couch_ here.                                       *)
(*                                                                         *)
(* The model follows one API call from the function that builds its        *)
(* parameters, through the payload encoder and the options handed to       *)
(* http.request, to the events of the transport (response, data, end,      *)
(* timeout, error) and of the writable sink (close, error), and to the     *)
(* settlement of the promise the caller holds.  It also covers the query   *)
(* string and the names in the path of a request, the events of a payload  *)
(* stream, the timeout setting of the free-function style, and the promise *)
(* chain of the example workflow in src/unnamed/part_000.                  *)
(*                                                                         *)
(* Not modelled: the duration field of the factory style's envelopes (a    *)
(* wall clock difference), the auth and rejectUnauthorized options.        *)
(***************************************************************************)
EXTENDS Integers, Sequences, FiniteSets, TLC

(***************************************************************************)
(* Bounds of the model.                                                    *)
(***************************************************************************)
\* calls made one after another in the specification of the wire requests
MaxCalls == 2
\* handler invocations (end, timeout, error, close) recorded per call
MaxEvents == 3
\* properties of a query object
MaxKeys == 2
\* chunks a payload stream emits
MaxChunks == 2

(***************************************************************************)
(* JavaScript values.  undefined and null are the strings below; a value   *)
(* that can be a request payload is a record that carries what the         *)
(* encoder inspects: its kind, its truthiness, whether JSON.stringify      *)
(* throws on it, the text it is sent as, and that text's length in bytes   *)
(* and in UTF-16 code units.                                               *)
(***************************************************************************)
Undefined == "undefined"
Null == "null"

JsValue(kind, truthy, cyclic, text, bytes, chars) ==
    [kind |-> kind, truthy |-> truthy, cyclic |-> cyclic,
     text |-> text, bytes |-> bytes, chars |-> chars]

UndefinedValue == JsValue("undefined", FALSE, FALSE, "undefined", 0, 0)
NullValue      == JsValue("null", FALSE, FALSE, "null", 0, 0)
BufferValue    == JsValue("buffer", TRUE, FALSE, "PNG", 3, 3)
StreamValue    == JsValue("stream", TRUE, FALSE, "<readable>", 0, 0)
ObjectValue    == JsValue("object", TRUE, FALSE, "{\"name\":\"Mai\"}", 14, 14)
CyclicValue    == JsValue("object", TRUE, TRUE, "<cyclic>", 0, 0)
\* a string of two characters, the second of which takes two bytes in UTF-8
StringValue    == JsValue("string", TRUE, FALSE, "h<e-acute>", 3, 2)
EmptyString    == JsValue("string", FALSE, FALSE, "", 0, 0)
NumberValue    == JsValue("number", TRUE, FALSE, "5", 1, 1)
ZeroValue      == JsValue("number", FALSE, FALSE, "0", 1, 1)
TrueValue      == JsValue("boolean", TRUE, FALSE, "true", 4, 4)
FalseValue     == JsValue("boolean", FALSE, FALSE, "false", 5, 5)
ArrayValue     == JsValue("array", TRUE, FALSE, "[1]", 3, 3)

\* every kind of value a caller can pass as a document or attachment body
PostDataValues ==
    { UndefinedValue, NullValue, BufferValue, StreamValue, ObjectValue,
      CyclicValue, StringValue, EmptyString, NumberValue, ZeroValue,
      TrueValue, FalseValue, ArrayValue }

\* Buffer.isBuffer(v)
IsBuffer(v) == v.kind = "buffer"

\* v && v.readable && typeof v._read === 'function'
IsReadableStream(v) == v.truthy /\ v.kind = "stream"

\* Object.prototype.toString.call(v)
ObjectToString(v) ==
    CASE v.kind \in {"object", "stream"} -> "[object Object]"
      [] v.kind = "array"     -> "[object Array]"
      [] v.kind = "buffer"    -> "[object Uint8Array]"
      [] v.kind = "string"    -> "[object String]"
      [] v.kind = "number"    -> "[object Number]"
      [] v.kind = "boolean"   -> "[object Boolean]"
      [] v.kind = "null"      -> "[object Null]"
      [] OTHER                -> "[object Undefined]"

\* typeof v
TypeOf(v) ==
    CASE v.kind \in {"object", "stream", "array", "buffer", "null"} -> "object"
      [] OTHER -> v.kind

\* truthiness of a string argument (an id, a revision): '' and undefined are falsy
Truthy(s) == s # "" /\ s # Undefined /\ s # Null

\* encodeURIComponent(s), on the names the model uses
\* an encodeURIComponent that escapes nothing
encodeURIComponent_raw(s) == s

encodeURIComponent(s) ==
    CASE s = "a/b" -> "a%2Fb"
      [] s = "a?b" -> "a%3Fb"
      [] s = "a#b" -> "a%23b"
      [] OTHER     -> s

(***************************************************************************)
(* Headers are sets of <<name, value>> pairs with one pair per name.       *)
(***************************************************************************)
SetHeader(h, name, value) == {p \in h : p[1] # name} \cup {<<name, value>>}

HasHeader(h, name) == \E p \in h : p[1] = name

HeaderNames(h) == {p[1] : p \in h}

(***************************************************************************)
(* Status tables.  The strings are those of the source, with its dashes    *)
(* and apostrophes written in ASCII.  A table is a function from the codes *)
(* it lists to their messages.                                             *)
(***************************************************************************)
\* the codes a modelled server answers with: 399 and 599 are in no table, 405
\* is in both generic tables, 502 in that of Node.js only
ResponseStatuses == {200, 399, 400, 404, 405, 502, 599}

GENERIC_STATUS_CODES ==
    (200 :> "OK") @@ (201 :> "Created") @@ (202 :> "Accepted") @@
    (304 :> "Not Modified") @@ (400 :> "Bad Request") @@
    (401 :> "Unauthorized") @@ (403 :> "Forbidden") @@ (404 :> "Not Found") @@
    (405 :> "Resource Not Allowed") @@ (406 :> "Not Acceptable") @@
    (409 :> "Conflict") @@ (412 :> "Precondition Failed") @@
    (415 :> "Bad Content Type") @@
    (416 :> "Requested Range Not Satisfiable") @@
    (417 :> "Expectation Failed") @@ (500 :> "Internal Server Error")

\* http.STATUS_CODES of Node.js, on the codes the model uses
HTTP_STATUS_CODES ==
    (200 :> "OK") @@ (201 :> "Created") @@ (202 :> "Accepted") @@
    (304 :> "Not Modified") @@ (400 :> "Bad Request") @@
    (401 :> "Unauthorized") @@ (403 :> "Forbidden") @@ (404 :> "Not Found") @@
    (405 :> "Method Not Allowed") @@ (406 :> "Not Acceptable") @@
    (409 :> "Conflict") @@ (412 :> "Precondition Failed") @@
    (415 :> "Unsupported Media Type") @@ (416 :> "Range Not Satisfiable") @@
    (417 :> "Expectation Failed") @@ (500 :> "Internal Server Error") @@
    (502 :> "Bad Gateway")

\* a call made without a table (couch.getUrlPath)
NoStatusCodes == [c \in {} |-> ""]

StatusCodes_getDocument ==
    (200 :> "OK - Request completed successfully") @@
    (304 :> "Not Modified - Document wasn't modified since specified revision") @@
    (400 :> "Bad Request - The format of the request or revision was invalid") @@
    (401 :> "Unauthorized - Read privilege required") @@
    (404 :> "Not Found - Document not found")

StatusCodes_createDocumentPut ==
    (201 :> "Created - Document created and stored on disk") @@
    (202 :> "Accepted - Document data accepted, but not yet stored on disk") @@
    (400 :> "Bad Request - Invalid request body or parameters") @@
    (401 :> "Unauthorized - Write privileges required") @@
    (404 :> "Not Found - Specified database or document ID doesn't exists") @@
    (409 :> "Conflict - Document with the specified ID already exists or specified revision is not latest for target document")

StatusCodes_createDocumentPost ==
    (201 :> "Created - Document created and stored on disk") @@
    (202 :> "Accepted - Document data accepted, but not yet stored on disk") @@
    (400 :> "Bad Request - Invalid database name") @@
    (401 :> "Unauthorized - Write privileges required") @@
    (404 :> "Not Found - Database doesn't exists") @@
    (409 :> "Conflict - A Conflicting Document with same ID already exists")

StatusCodes_attachment ==
    (200 :> "OK - Attachment exists") @@
    (304 :> "Not Modified - Attachment wasn't modified if ETag equals specified If-None-Match header") @@
    (401 :> "Unauthorized - Read privilege required") @@
    (404 :> "Not Found - Specified database, document or attchment was not found")

StatusCodes_addAttachment ==
    (201 :> "OK - Created") @@
    (202 :> "Accepted - Request was but changes are not yet stored on disk") @@
    (401 :> "Unauthorized - Write privilege required") @@
    (404 :> "Not Found - Specified database, document or attchment was not found") @@
    (409 :> "409 Conflict - Document's revision wasn't specified or it's not the latest")

\* table[code], undefined when the table has no such key
Lookup(table, code) == IF code \in DOMAIN table THEN table[code] ELSE Undefined

\* a || b on strings: b when a is undefined or empty
Or(a, b) == IF a = Undefined \/ a = "" THEN b ELSE a

\* free-function style: statusCodes[code] || GENERIC_STATUS_CODES[code] || 'unknown status'
statusMessage(statusCodes, status) ==
    Or(Or(Lookup(statusCodes, status), Lookup(GENERIC_STATUS_CODES, status)),
       "unknown status")

\* factory style: Object.assign({}, http.STATUS_CODES, statusCodes)[status] || 'unknown status'
statusCode(statusCodes, status) ==
    Or(Lookup(statusCodes @@ HTTP_STATUS_CODES, status), "unknown status")

(***************************************************************************)
(* URLs.  A base URL is the string the caller passes, carried with the     *)
(* fields url.parse gives for it; tail is what follows the authority.  A   *)
(* path is a sequence of string pieces, concatenated in order.  The URL a  *)
(* template literal `${baseUrl}/...` builds is the base and the pieces     *)
(* appended to it.                                                         *)
(***************************************************************************)
BaseUrl(href, protocol, slashes, host, port, hostname, tail) ==
    [href |-> href, protocol |-> protocol, slashes |-> slashes, auth |-> Null,
     host |-> host, port |-> port, hostname |-> hostname, tail |-> tail]

\* 'http://localhost:5984'
PlainUrl ==
    BaseUrl("http://localhost:5984", "http:", "true", "localhost:5984",
            "5984", "localhost", <<>>)
\* 'http://localhost': no explicit port
NoPortUrl ==
    BaseUrl("http://localhost", "http:", "true", "localhost", Null,
            "localhost", <<>>)
\* 'https://couch.example.com:6984/': a trailing slash
SlashUrl ==
    BaseUrl("https://couch.example.com:6984/", "https:", "true",
            "couch.example.com:6984", "6984", "couch.example.com", <<"/">>)
\* 'not-a-url': no scheme, no authority
BadUrl ==
    BaseUrl("not-a-url", Null, Null, Null, Null, Null, <<"not-a-url">>)
\* 'ftp://localhost:5984': a scheme that is neither http nor https
FtpUrl ==
    BaseUrl("ftp://localhost:5984", "ftp:", "true", "localhost:5984",
            "5984", "localhost", <<>>)
\* 'http:localhost:5984': no '//', so url.parse finds no authority
NoSlashesUrl ==
    BaseUrl("http:localhost:5984", "http:", Null, Null, Null, Null,
            <<"localhost:5984">>)
\* 'http://:5984': an empty hostname
NoHostUrl ==
    BaseUrl("http://:5984", "http:", "true", ":5984", "5984", "", <<>>)
\* 'http://localhost:abc': url.parse ends the hostname at the ':' that no
\* digits follow, finds no port and puts ':abc' at the head of the path
BadPortUrl ==
    BaseUrl("http://localhost:abc", "http:", "true", "localhost", Null,
            "localhost", <<"/:abc">>)
\* the baseUrl property left out of the factory's options
MissingUrl ==
    BaseUrl(Undefined, Null, Null, Null, Null, Null, <<"undefined">>)

BaseUrls ==
    {PlainUrl, NoPortUrl, SlashUrl, BadUrl, FtpUrl, NoSlashesUrl, NoHostUrl, BadPortUrl}

Url(base, rest) == [base |-> base, rest |-> rest]

\* url.parse(url): the authority is the base's, the path is all that follows it
urlParse(url) ==
    [protocol |-> url.base.protocol, slashes |-> url.base.slashes,
     auth |-> url.base.auth, host |-> url.base.host, port |-> url.base.port,
     hostname |-> url.base.hostname, path |-> url.base.tail \o url.rest]

\* Number.isNaN(Number(port)): Number(null) is 0, Number('5984') is 5984
NumberIsNaN(port) == port \notin {Null, "5984", "6984"}

\* Number.isNaN(parseInt(port, 10)): parseInt(null, 10) is NaN
ParseIntIsNaN(port) == port \notin {"5984", "6984"}

\* host && host.split(':')[0]
HostBeforeColon(o) == IF ~Truthy(o.host) THEN o.host ELSE o.hostname

isValidUrl(url) ==
    LET o == urlParse(url)
    IN  ~ ( \/ o.protocol \notin {"http:", "https:"}
            \/ o.slashes = "false"
            \/ NumberIsNaN(o.port)
            \/ ~Truthy(o.hostname) )

(***************************************************************************)
(* Result envelopes.  fields names the properties the object has; a        *)
(* property it lacks holds a placeholder.  data is a tagged value.         *)
(***************************************************************************)
Data(kind, v) == [kind |-> kind, v |-> v]

NoData == Data("absent", "")

NoHeaders == {}

Envelope(headers, data, status, message) ==
    [fields |-> {"headers", "data", "status", "message"},
     headers |-> headers, data |-> data, status |-> status, message |-> message]

\* the envelope of the streaming path: no data property
StreamEnvelope(headers, status, message) ==
    [fields |-> {"headers", "status", "message"},
     headers |-> headers, data |-> NoData, status |-> status, message |-> message]

\* an Error object that is no envelope (a thrown AssertionError, TypeError)
ErrorValue(name, message) ==
    [fields |-> {"name", "message"},
     headers |-> NoHeaders, data |-> Data("absent", name), status |-> 0,
     message |-> message]

NoValue == [fields |-> {}, headers |-> NoHeaders, data |-> NoData, status |-> 0,
            message |-> ""]

IsEnvelope(v) == {"headers", "status", "message"} \subseteq v.fields

(***************************************************************************)
(* Promises.  A promise is pending, fulfilled or rejected; resolve and     *)
(* reject act on a pending promise only.                                   *)
(***************************************************************************)
Pending == [state |-> "pending", value |-> NoValue]

Fulfilled(v) == [state |-> "fulfilled", value |-> v]

Rejected(v) == [state |-> "rejected", value |-> v]

\* a promise that a later resolve or reject settles again
SettleAgain(p, how, v) == [state |-> how, value |-> v]

\* resolve(v) or reject(v) called on promise p
Settle(p, how, v) ==
    IF p.state = "pending" THEN [state |-> how, value |-> v] ELSE p

(***************************************************************************)
(* The parameter object an API function hands to request / requestStream,  *)
(* and what request gives back: the value returned to the caller and, when *)
(* http.request was called, the options and the body it was called with.   *)
(***************************************************************************)
Param(url, path, method, destination, postData, postContentType, statusCodes, sink) ==
    [url |-> url, path |-> path, method |-> method, destination |-> destination,
     postData |-> postData, postContentType |-> postContentType,
     statusCodes |-> statusCodes, sink |-> sink]

\* the url property of a factory style parameter object, which has none
NoUrl == Url(MissingUrl, <<>>)

\* a writable sink the caller passes to getAttachment, and a value that is none
ValidSink == [writable |-> TRUE, pipe |-> TRUE]
InvalidSink == [writable |-> FALSE, pipe |-> FALSE]
NoSink == [writable |-> FALSE, pipe |-> FALSE]

HttpOptions(hostname, port, path, auth, protocol, method, headers) ==
    [hostname |-> hostname, port |-> port, path |-> path, auth |-> auth,
     protocol |-> protocol, method |-> method, headers |-> headers]

NoOptions == HttpOptions(Undefined, Undefined, <<>>, Undefined, Undefined, Undefined, {})

\* returned: "promise", "undefined" (the function returned nothing) or
\* "threw" (it threw synchronously).  invoked: http.request was called.
\* written: the chunks given to req.write;  ended: req.end was called;
\* upload: a readable stream is to be copied into the request.
Outcome(returned, promise, invoked, options, written, ended, upload) ==
    [returned |-> returned, promise |-> promise, invoked |-> invoked,
     options |-> options, written |-> written, ended |-> ended, upload |-> upload]

NotSent(returned, promise) ==
    Outcome(returned, promise, FALSE, NoOptions, <<>>, FALSE, FALSE)

(***************************************************************************)
(* The payload encoder: the if / else if chain of request.  The result is  *)
(* the headers after it, the body and stream variables, the error variable *)
(* (NoData when unset) and whether the chain threw.  Buffer.byteLength of  *)
(* an undefined body throws a TypeError on the Node.js releases that check *)
(* its argument and returns the length of 'undefined' on the older ones:   *)
(* legacy says which release runs.                                         *)
(***************************************************************************)
Encoded(headers, body, hasBody, stream, error, threw) ==
    [headers |-> headers, body |-> body, hasBody |-> hasBody, stream |-> stream,
     error |-> error, threw |-> threw]

\* free-function style, src/index.js lines 83-121
request_encode(headers, postData, postContentType, legacy) ==
    IF IsBuffer(postData) THEN
        Encoded(SetHeader(SetHeader(headers, "content-type", postContentType),
                          "content-length", ToString(postData.bytes)),
                postData.text, TRUE, FALSE, NoData, FALSE)
    ELSE IF IsReadableStream(postData) THEN
        Encoded(SetHeader(SetHeader(headers, "content-type", postContentType),
                          "Transfer-Encoding", "chunked"),
                Undefined, FALSE, TRUE, NoData, FALSE)
    ELSE IF ObjectToString(postData) = "[object Object]" THEN
        IF postData.cyclic THEN
            \* JSON.stringify threw: error = err, body stays undefined
            Encoded(IF legacy
                      THEN SetHeader(SetHeader(headers, "content-type", "application/json"),
                                     "content-length", "9")
                      ELSE SetHeader(headers, "content-type", "application/json"),
                    Undefined, FALSE, FALSE,
                    Data("Error", "Converting circular structure to JSON"), ~legacy)
        ELSE
            Encoded(SetHeader(SetHeader(headers, "content-type", "application/json"),
                              "content-length", ToString(postData.bytes)),
                    postData.text, TRUE, FALSE, NoData, FALSE)
    ELSE IF TypeOf(postData) = "string" THEN
        Encoded(SetHeader(SetHeader(headers, "content-type", postContentType),
                          "content-length", ToString(postData.chars)),
                postData.text, postData.truthy, FALSE, NoData, FALSE)
    ELSE IF postData.truthy THEN
        Encoded(headers, Undefined, FALSE, FALSE,
                Data("string", "unsoported post data"), FALSE)
    ELSE
        Encoded(headers, Undefined, FALSE, FALSE, NoData, FALSE)

\* factory style, src/index.js lines 918-956
couch_request_encode(headers, postData, postContentType, legacy) ==
    IF IsBuffer(postData) THEN
        Encoded(SetHeader(SetHeader(headers, "content-type", postContentType),
                          "content-length", ToString(postData.bytes)),
                postData.text, TRUE, FALSE, NoData, FALSE)
    ELSE IF IsReadableStream(postData) THEN
        Encoded(SetHeader(SetHeader(headers, "content-type", postContentType),
                          "Transfer-Encoding", "chunked"),
                Undefined, FALSE, TRUE, NoData, FALSE)
    ELSE IF ObjectToString(postData) = "[object Object]" THEN
        IF postData.cyclic THEN
            Encoded(IF legacy
                      THEN SetHeader(SetHeader(headers, "content-type", "application/json"),
                                     "content-length", "9")
                      ELSE SetHeader(headers, "content-type", "application/json"),
                    Undefined, FALSE, FALSE,
                    Data("Error", "Converting circular structure to JSON"), ~legacy)
        ELSE
            Encoded(SetHeader(SetHeader(headers, "content-type", "application/json"),
                              "content-length", ToString(postData.bytes)),
                    postData.text, TRUE, FALSE, NoData, FALSE)
    ELSE IF TypeOf(postData) = "string" THEN
        Encoded(SetHeader(SetHeader(headers, "content-type", postContentType),
                          "content-length", ToString(postData.chars)),
                postData.text, postData.truthy, FALSE, NoData, FALSE)
    ELSE IF postData.truthy \/ postData.kind = "null" THEN
        Encoded(headers, Undefined, FALSE, FALSE,
                Data("string", "unsupported post data"), FALSE)
    ELSE
        Encoded(headers, Undefined, FALSE, FALSE, NoData, FALSE)

\* what follows the promise executor's registrations: if (body) ... else if (stream) ... else
WriteBody(e) == IF e.hasBody THEN <<e.body>> ELSE <<>>

\* an executor that ends the request whatever the payload
EndsAtOnce_always(e) == TRUE

EndsAtOnce(e) == e.hasBody \/ ~e.stream

(***************************************************************************)
(* request, free-function style (src/index.js lines 54-197), up to the     *)
(* return of the promise: the options, the URL check, the encoder, and in  *)
(* the executor the call of http.request and the write of the body.        *)
(***************************************************************************)
DefaultHeaders == {<<"user-agent", "couchdb-promises">>, <<"accept", "application/json">>}

BadRequestEnvelope ==
    Envelope(NoHeaders, Data("Error", "Bad request"), 400, "Error: Bad request")

request(param, legacy) ==
    LET o == urlParse(param.url)
        httpOptions ==
            HttpOptions(HostBeforeColon(o), IF o.port = Null THEN "443" ELSE o.port,
                        o.path, o.auth, o.protocol, param.method, DefaultHeaders)
        e == request_encode(httpOptions.headers, param.postData,
                            param.postContentType, legacy)
    IN  IF ~isValidUrl(param.url) THEN
            NotSent("promise", Rejected(BadRequestEnvelope))
        ELSE IF e.threw THEN
            NotSent("threw", Pending)
        ELSE IF e.error # NoData THEN
            NotSent("promise",
                    Rejected(Envelope(NoHeaders, e.error, 400, "invalid post data")))
        ELSE
            Outcome("promise", Pending, TRUE, [httpOptions EXCEPT !.headers = e.headers],
                    WriteBody(e), EndsAtOnce(e), e.stream)

(***************************************************************************)
(* requestStream, free-function style (src/index.js lines 199-266).        *)
(***************************************************************************)
\* assert(stream && stream.writable && typeof stream.pipe === 'function')
IsWritableSink(stream) == stream.writable /\ stream.pipe

requestStream(param) ==
    LET o == urlParse(param.url)
        httpOptions ==
            HttpOptions(HostBeforeColon(o), IF o.port = Null THEN "443" ELSE o.port,
                        o.path, o.auth, o.protocol, "GET",
                        {<<"user-agent", "couchdb-promises">>})
    IN  IF ~IsWritableSink(param.sink) THEN
            NotSent("threw", Pending)
        ELSE IF ~isValidUrl(param.url) THEN
            NotSent("promise", Rejected(BadRequestEnvelope))
        ELSE
            Outcome("promise", Pending, TRUE, httpOptions, <<>>, TRUE, FALSE)

(***************************************************************************)
(* The factory (src/index.js lines 857-886): the configuration, the check  *)
(* of baseUrl and the options object httpOptions that every call of the    *)
(* returned client shares.                                                 *)
(***************************************************************************)
DefaultRequestTimeout == 10000

\* the options object: baseUrl (MissingUrl when left out) and, when
\* hasTimeout, requestTimeout
Options(baseUrl, hasTimeout, ms) ==
    [baseUrl |-> baseUrl, hasTimeout |-> hasTimeout, requestTimeout |-> ms]

\* Object.assign(config, opt) over the defaults
Config(opt) ==
    [baseUrl |-> opt.baseUrl,
     requestTimeout |-> IF opt.hasTimeout THEN opt.requestTimeout
                        ELSE DefaultRequestTimeout]

\* a constructor that checks baseUrl as isValidUrl checks a call's URL
couch_configError_asIsValidUrl(config) ==
    \/ config.baseUrl.href = Undefined
    \/ ~isValidUrl(Url(config.baseUrl, <<>>))

\* the constructor throws 'missing property "baseUrl"' or 'invalid baseUrl'
couch_configError(config) ==
    LET o == urlParse(Url(config.baseUrl, <<>>))
    IN  \/ config.baseUrl.href = Undefined
        \/ ~ ( /\ o.protocol \in {"http:", "https:"}
               /\ o.slashes = "true"
               /\ ~ParseIntIsNaN(o.port)
               /\ Truthy(o.hostname) )

\* httpOptions as the constructor builds it: no method, no path yet
couch_httpOptions(config) ==
    LET o == urlParse(Url(config.baseUrl, <<>>))
    IN  HttpOptions(HostBeforeColon(o), o.port, <<>>, o.auth, o.protocol,
                    Undefined, DefaultHeaders)

(***************************************************************************)
(* request, factory style (src/index.js lines 903-1039).  It writes the    *)
(* method, the path and the headers of the call into the shared            *)
(* httpOptions and hands that object to http.request: shared is the object *)
(* as this call leaves it.                                                 *)
(***************************************************************************)
\* a request that writes the path into the shared httpOptions only once
couch_request_options_firstPath(httpOptions, param, legacy) ==
    [httpOptions EXCEPT !.method = param.method,
                        !.path = IF @ = <<>> THEN <<"/">> \o param.path ELSE @]

couch_request_options(httpOptions, param, legacy) ==
    LET h0 == IF param.destination # Undefined /\ param.destination # ""
              THEN SetHeader(httpOptions.headers, "Destination", param.destination)
              ELSE httpOptions.headers
        e == couch_request_encode(h0, param.postData, param.postContentType, legacy)
    IN  [httpOptions EXCEPT !.method = param.method,
                            !.path = <<"/">> \o param.path,
                            !.headers = e.headers]

couch_request(httpOptions, param, legacy) ==
    LET h0 == IF param.destination # Undefined /\ param.destination # ""
              THEN SetHeader(httpOptions.headers, "Destination", param.destination)
              ELSE httpOptions.headers
        e == couch_request_encode(h0, param.postData, param.postContentType, legacy)
        shared == couch_request_options(httpOptions, param, legacy)
    IN  IF e.threw THEN
            NotSent("threw", Pending)
        ELSE IF e.error # NoData THEN
            NotSent("promise",
                    Rejected(Envelope(NoHeaders, Data("errorObject", e.error.v), 400,
                                      "invalid post data")))
        ELSE
            Outcome("promise", Pending, TRUE, shared, WriteBody(e), EndsAtOnce(e),
                    e.stream)

(***************************************************************************)
(* requestStream, factory style (src/index.js lines 1041-1093).            *)
(***************************************************************************)
\* a requestStream that writes method and path before it checks the sink
couch_requestStream_options_unchecked(httpOptions, param) ==
    [httpOptions EXCEPT !.method = "GET", !.path = <<"/">> \o param.path]

couch_requestStream_options(httpOptions, param) ==
    IF ~IsWritableSink(param.sink) THEN httpOptions
    ELSE [httpOptions EXCEPT !.method = "GET", !.path = <<"/">> \o param.path]

couch_requestStream(httpOptions, param) ==
    IF ~IsWritableSink(param.sink) THEN
        NotSent("threw", Pending)
    ELSE
        Outcome("promise", Pending, TRUE, couch_requestStream_options(httpOptions, param),
                <<>>, TRUE, FALSE)

(***************************************************************************)
(* Query strings.  A text is a sequence of string pieces, concatenated in  *)
(* order.  A query object is the sequence of its own properties in         *)
(* insertion order, each a <<key, value>> pair; the empty sequence stands  *)
(* for {} and for a query object the caller left out, which Object.assign  *)
(* copies nothing from.  A query value carries its kind, the text          *)
(* String(v) gives for it and, for an array, the texts of its elements.    *)
(***************************************************************************)
QueryValue(kind, text, items) == [kind |-> kind, text |-> text, items |-> items]

\* 'a/b', 3, true and ['a', 'b']
QueryValues ==
    { QueryValue("string", <<"a", "/", "b">>, <<>>),
      QueryValue("number", <<"3">>, <<>>),
      QueryValue("boolean", <<"true">>, <<>>),
      QueryValue("array", <<"a", ",", "b">>, << <<"a">>, <<"b">> >>) }

QUERY_KEYS_JSON == <<"key", "keys", "startkey", "endkey">>

\* texts.join(sep)
RECURSIVE Join(_, _)
Join(texts, sep) ==
    IF Len(texts) = 0 THEN <<>>
    ELSE IF Len(texts) = 1 THEN texts[1]
    ELSE texts[1] \o sep \o Join(Tail(texts), sep)

\* '"' + s + '"': JSON.stringify of a string that needs no escape
Quoted(text) == <<"\"">> \o text \o <<"\"">>

\* JSON.stringify(v): the string it returns
JSONStringify(v) ==
    QueryValue("string",
               CASE v.kind = "string" -> Quoted(v.text)
                 [] v.kind = "array" ->
                       <<"[">> \o Join([i \in 1..Len(v.items) |-> Quoted(v.items[i])],
                                       <<",">>) \o <<"]">>
                 [] OTHER -> v.text,
               <<>>)

\* querystring.escape(str): percent-encodes all but A-Za-z0-9 - _ . ! ~ * ' ( )
querystringEscape(text) ==
    [i \in 1..Len(text) |->
        CASE text[i] = "\"" -> "%22"
          [] text[i] = "/"  -> "%2F"
          [] text[i] = ","  -> "%2C"
          [] text[i] = "["  -> "%5B"
          [] text[i] = "]"  -> "%5D"
          [] OTHER          -> text[i]]

\* stringifyPrimitive(v) of querystring: '' for what is no string, number or boolean
stringifyPrimitive(v) ==
    IF v.kind \in {"string", "number", "boolean"} THEN v.text ELSE <<>>

\* querystring.stringify(obj): key=value fields joined by '&', an array value
\* giving one field per element
querystringStringify(obj) ==
    Join([i \in 1..Len(obj) |->
            LET ks == querystringEscape(<<obj[i][1]>>) \o <<"=">>
                v == obj[i][2]
            IN  IF v.kind = "array"
                THEN Join([j \in 1..Len(v.items) |-> ks \o querystringEscape(v.items[j])],
                          <<"&">>)
                ELSE ks \o querystringEscape(stringifyPrimitive(v))],
         <<"&">>)

\* a createQueryString that leaves out the JSON.stringify of the four keys
createQueryString_unquoted(queryObj) ==
    IF Len(queryObj) # 0 THEN <<"?">> \o querystringStringify(queryObj) ELSE <<>>

\* free-function style, src/index.js lines 44-52
createQueryString(queryObj) ==
    LET obj == [i \in 1..Len(queryObj) |->
                  IF \E k \in DOMAIN QUERY_KEYS_JSON : QUERY_KEYS_JSON[k] = queryObj[i][1]
                  THEN <<queryObj[i][1], JSONStringify(queryObj[i][2])>>
                  ELSE queryObj[i]]
    IN  IF Len(obj) # 0 THEN <<"?">> \o querystringStringify(obj) ELSE <<>>

\* factory style, src/index.js lines 888-896
couch_createQueryString(queryObj) ==
    LET obj == [i \in 1..Len(queryObj) |->
                  IF \E k \in DOMAIN QUERY_KEYS_JSON : QUERY_KEYS_JSON[k] = queryObj[i][1]
                  THEN <<queryObj[i][1], JSONStringify(queryObj[i][2])>>
                  ELSE queryObj[i]]
    IN  IF Len(obj) # 0 THEN <<"?">> \o querystringStringify(obj) ELSE <<>>

(***************************************************************************)
(* The API functions.  Each builds the parameter object of its request.    *)
(* An optional query object or revision that the caller leaves out adds    *)
(* nothing to the path.                                                    *)
(***************************************************************************)
RevQuery(rev) == IF Truthy(rev) THEN <<"?rev=", rev>> ELSE <<>>

getDocument(baseUrl, dbName, docId) ==
    Param(Url(baseUrl, <<"/", encodeURIComponent(dbName), "/", encodeURIComponent(docId)>>),
          <<>>, "GET", Undefined, UndefinedValue, Undefined,
          StatusCodes_getDocument, NoSink)

createDocument(baseUrl, dbName, doc, docId) ==
    IF Truthy(docId) THEN
        Param(Url(baseUrl, <<"/", encodeURIComponent(dbName), "/", encodeURIComponent(docId)>>),
              <<>>, "PUT", Undefined, doc, "application/json",
              StatusCodes_createDocumentPut, NoSink)
    ELSE
        Param(Url(baseUrl, <<"/", encodeURIComponent(dbName)>>),
              <<>>, "POST", Undefined, doc, Undefined,
              StatusCodes_createDocumentPost, NoSink)

addAttachment(baseUrl, dbName, docId, attName, rev, contentType, data) ==
    Param(Url(baseUrl, <<"/", encodeURIComponent(dbName), "/", encodeURIComponent(docId),
                         "/", encodeURIComponent(attName)>> \o RevQuery(rev)),
          <<>>, "PUT", Undefined, data, contentType,
          StatusCodes_addAttachment, NoSink)

getAttachment(baseUrl, dbName, docId, attName, stream, rev) ==
    Param(Url(baseUrl, <<"/", encodeURIComponent(dbName), "/", encodeURIComponent(docId),
                         "/", encodeURIComponent(attName)>> \o RevQuery(rev)),
          <<>>, "GET", Undefined, UndefinedValue, Undefined,
          StatusCodes_attachment, stream)

couch_getDocument(dbName, docId) ==
    Param(NoUrl, <<encodeURIComponent(dbName), "/", encodeURIComponent(docId)>>,
          "GET", Undefined, UndefinedValue, Undefined,
          StatusCodes_getDocument, NoSink)

\* the request copyDocument makes; it makes none unless both ids are truthy
couch_copyDocument(dbName, docId, newDocId) ==
    Param(NoUrl, <<encodeURIComponent(dbName), "/", encodeURIComponent(docId)>>,
          "COPY", newDocId, UndefinedValue, Undefined,
          StatusCodes_createDocumentPut, NoSink)

couch_copyDocument_requests(docId, newDocId) == Truthy(docId) /\ Truthy(newDocId)

couch_createDocument(dbName, doc, docId) ==
    IF Truthy(docId) THEN
        Param(NoUrl, <<encodeURIComponent(dbName), "/", encodeURIComponent(docId)>>,
              "PUT", Undefined, doc, "application/json",
              StatusCodes_createDocumentPut, NoSink)
    ELSE
        Param(NoUrl, <<encodeURIComponent(dbName)>>,
              "POST", Undefined, doc, Undefined,
              StatusCodes_createDocumentPost, NoSink)

couch_addAttachment(dbName, docId, attName, rev, contentType, data) ==
    Param(NoUrl, <<encodeURIComponent(dbName), "/", encodeURIComponent(docId),
                   "/", encodeURIComponent(attName)>> \o RevQuery(rev),
          "PUT", Undefined, data, contentType,
          StatusCodes_addAttachment, NoSink)

couch_getAttachment(dbName, docId, attName, stream, rev) ==
    Param(NoUrl, <<encodeURIComponent(dbName), "/", encodeURIComponent(docId),
                   "/", encodeURIComponent(attName)>> \o RevQuery(rev),
          "GET", Undefined, UndefinedValue, Undefined,
          StatusCodes_attachment, stream)

getView(baseUrl, dbName, docId, viewName, queryObj) ==
    Param(Url(baseUrl, <<"/", encodeURIComponent(dbName), "/", "_design", "/",
                         encodeURIComponent(docId), "/", "_view", "/",
                         encodeURIComponent(viewName)>> \o createQueryString(queryObj)),
          <<>>, "GET", Undefined, UndefinedValue, Undefined,
          (200 :> "OK - Request completed successfully"), NoSink)

couch_getView(dbName, docId, viewName, queryObj) ==
    Param(NoUrl, <<encodeURIComponent(dbName), "/", "_design", "/",
                   encodeURIComponent(docId), "/", "_view", "/",
                   encodeURIComponent(viewName)>> \o couch_createQueryString(queryObj),
          "GET", Undefined, UndefinedValue, Undefined,
          (200 :> "OK - Request completed successfully"), NoSink)

couch_deleteIndex(dbName, docId, name) ==
    Param(NoUrl, <<encodeURIComponent(dbName), "/", "_index", "/",
                   encodeURIComponent(docId), "/", "json", "/",
                   encodeURIComponent(name)>>,
          "DELETE", Undefined, UndefinedValue, Undefined,
          (200 :> "OK - Success") @@
          (400 :> "Bad Request - Invalid request") @@
          (401 :> "Unauthorized - Writer permission required") @@
          (404 :> "Not Found - Index not found") @@
          (500 :> "Internal Server Error - Execution error"), NoSink)

createDatabase(baseUrl, dbName) ==
    Param(Url(baseUrl, <<"/", encodeURIComponent(dbName)>>),
          <<>>, "PUT", Undefined, UndefinedValue, Undefined,
          (201 :> "Created - Database created successfully") @@
          (400 :> "Bad Request - Invalid database name") @@
          (401 :> "Unauthorized - CouchDB Server Administrator privileges required") @@
          (412 :> "Precondition Failed - Database already exists"), NoSink)

deleteDatabase(baseUrl, dbName) ==
    Param(Url(baseUrl, <<"/", encodeURIComponent(dbName)>>),
          <<>>, "DELETE", Undefined, UndefinedValue, Undefined,
          (200 :> "OK - Database removed successfully") @@
          (400 :> "Bad Request - Invalid database name or forgotten document id by accident") @@
          (401 :> "Unauthorized - CouchDB Server Administrator privileges required") @@
          (404 :> "Not Found - Database doesn't exist"), NoSink)

getDesignDocument(baseUrl, dbName, docId, queryObj) ==
    Param(Url(baseUrl, <<"/", encodeURIComponent(dbName), "/", "_design", "/",
                         encodeURIComponent(docId)>> \o createQueryString(queryObj)),
          <<>>, "GET", Undefined, UndefinedValue, Undefined,
          StatusCodes_getDocument, NoSink)

getDesignDocumentInfo(baseUrl, dbName, docId) ==
    Param(Url(baseUrl, <<"/", encodeURIComponent(dbName), "/", "_design", "/",
                         encodeURIComponent(docId), "/", "_info">>),
          <<>>, "GET", Undefined, UndefinedValue, Undefined,
          (200 :> "OK - Request completed successfully"), NoSink)

createDesignDocument(baseUrl, dbName, doc, docId) ==
    Param(Url(baseUrl, <<"/", encodeURIComponent(dbName), "/", "_design", "/",
                         encodeURIComponent(docId)>>),
          <<>>, "PUT", Undefined, doc, Undefined,
          StatusCodes_createDocumentPut, NoSink)

\* the revision is appended as it is, whatever it is
deleteDesignDocument(baseUrl, dbName, docId, rev) ==
    Param(Url(baseUrl, <<"/", encodeURIComponent(dbName), "/", "_design", "/",
                         encodeURIComponent(docId), "?rev=", rev>>),
          <<>>, "DELETE", Undefined, UndefinedValue, Undefined,
          (200 :> "OK - Document successfully removed") @@
          (202 :> "Accepted - Request was accepted, but changes are not yet stored on disk") @@
          (400 :> "Bad Request - Invalid request body or parameters") @@
          (401 :> "Unauthorized - Write privilege required") @@
          (404 :> "Not Found - Specified database or document ID doesn't exist") @@
          (409 :> "Conflict - Specified revision is not the latest for target document"),
          NoSink)

(***************************************************************************)
(* State.                                                                  *)
(***************************************************************************)
VARIABLES
    requestTimeout, \* the module variable of the free-function style
    result,         \* the last call of setTimeout or getTimeout and what it returned
    client,         \* the factory's closure: its config and its shared httpOptions
    calls,          \* the API calls made so far, in order
    promise,        \* promise[c]: the promise call c returned to its caller
    inner,          \* inner[c]: the promise of requestStream inside getAttachment
    req,            \* req[c]: the ClientRequest of call c
    res,            \* res[c]: the IncomingMessage of call c
    sink,           \* sink[c]: the writable stream passed to getAttachment
    log             \* log[c]: the handlers run for call c, each with the envelope it built

vars == <<requestTimeout, result, client, calls, promise, inner, req, res, sink, log>>

InitialRequestTimeout == 10000

\* the arguments of one API call, with the database, attachment, view and
\* index names, the content type and the query object that most calls share
Args(op, baseUrl, docId, newDocId, data, stream) ==
    [op |-> op, baseUrl |-> baseUrl, dbName |-> "db", docId |-> docId,
     newDocId |-> newDocId, attName |-> "logo.png", rev |-> Undefined,
     contentType |-> "image/png", data |-> data, stream |-> stream,
     viewName |-> "all", name |-> "idx", queryObj |-> <<>>]

FreeParam(a) ==
    CASE a.op = "getDocument" -> getDocument(a.baseUrl, a.dbName, a.docId)
      [] a.op = "createDocument" -> createDocument(a.baseUrl, a.dbName, a.data, a.docId)
      [] a.op = "addAttachment" ->
            addAttachment(a.baseUrl, a.dbName, a.docId, a.attName, a.rev,
                          a.contentType, a.data)
      [] a.op = "getAttachment" ->
            getAttachment(a.baseUrl, a.dbName, a.docId, a.attName, a.stream, a.rev)
      [] a.op = "getView" ->
            getView(a.baseUrl, a.dbName, a.docId, a.viewName, a.queryObj)
      [] a.op = "createDatabase" -> createDatabase(a.baseUrl, a.dbName)
      [] a.op = "deleteDatabase" -> deleteDatabase(a.baseUrl, a.dbName)
      [] a.op = "getDesignDocument" ->
            getDesignDocument(a.baseUrl, a.dbName, a.docId, a.queryObj)
      [] a.op = "getDesignDocumentInfo" ->
            getDesignDocumentInfo(a.baseUrl, a.dbName, a.docId)
      [] a.op = "createDesignDocument" ->
            createDesignDocument(a.baseUrl, a.dbName, a.data, a.docId)
      [] a.op = "deleteDesignDocument" ->
            deleteDesignDocument(a.baseUrl, a.dbName, a.docId, a.rev)

CouchParam(a) ==
    CASE a.op = "getDocument" -> couch_getDocument(a.dbName, a.docId)
      [] a.op = "copyDocument" -> couch_copyDocument(a.dbName, a.docId, a.newDocId)
      [] a.op = "createDocument" -> couch_createDocument(a.dbName, a.data, a.docId)
      [] a.op = "addAttachment" ->
            couch_addAttachment(a.dbName, a.docId, a.attName, a.rev,
                                a.contentType, a.data)
      [] a.op = "getAttachment" ->
            couch_getAttachment(a.dbName, a.docId, a.attName, a.stream, a.rev)
      [] a.op = "getView" -> couch_getView(a.dbName, a.docId, a.viewName, a.queryObj)
      [] a.op = "deleteIndex" -> couch_deleteIndex(a.dbName, a.docId, a.name)

\* getAttachment around requestStream: Promise.resolve().then(() => requestStream(..)
\* .then(..)).  A throw of requestStream rejects the returned promise with the
\* AssertionError; a rejected requestStream promise rejects it with its envelope.
getAttachment_outcome(rs) ==
    Outcome("promise",
            IF rs.returned = "threw"
            THEN Rejected(ErrorValue("AssertionError", "is writeable stream"))
            ELSE rs.promise,
            rs.invoked, rs.options, rs.written, rs.ended, rs.upload)

\* what the free-function style API function a.op returns for arguments a
FreeOutcome(a, legacy) ==
    IF a.op = "getAttachment" THEN getAttachment_outcome(requestStream(FreeParam(a)))
    ELSE request(FreeParam(a), legacy)

\* what the method a.op of the client returns for arguments a
CouchOutcome(httpOptions, a, legacy) ==
    IF a.op = "getAttachment" THEN
        getAttachment_outcome(couch_requestStream(httpOptions, CouchParam(a)))
    ELSE IF a.op = "copyDocument" /\ ~couch_copyDocument_requests(a.docId, a.newDocId) THEN
        NotSent("undefined", Pending)
    ELSE couch_request(httpOptions, CouchParam(a), legacy)

\* the shared httpOptions after the method a.op ran
CouchShared(httpOptions, a, legacy) ==
    IF a.op = "getAttachment" THEN couch_requestStream_options(httpOptions, CouchParam(a))
    ELSE IF a.op = "copyDocument" /\ ~couch_copyDocument_requests(a.docId, a.newDocId) THEN
        httpOptions
    ELSE couch_request_options(httpOptions, CouchParam(a), legacy)

\* opt is the options object the caller passed, which stays the caller's
NoClient == [state |-> "none", config |-> Config(Options(MissingUrl, FALSE, 0)),
             httpOptions |-> NoOptions, opt |-> Options(MissingUrl, FALSE, 0)]

NoResponse == [phase |-> "none", status |-> 0, headers |-> NoHeaders, body |-> <<>>,
               got |-> 0, buffer |-> <<>>]

\* result before setTimeout or getTimeout was called
NoResult == [by |-> "none", arg |-> [isNumber |-> FALSE, nan |-> TRUE, n |-> 0],
             value |-> 0]

Init ==
    /\ requestTimeout = InitialRequestTimeout
    /\ result = NoResult
    /\ client = NoClient
    /\ calls = <<>>
    /\ promise = <<>>
    /\ inner = <<>>
    /\ req = <<>>
    /\ res = <<>>
    /\ sink = <<>>
    /\ log = <<>>

(***************************************************************************)
(* Making a call.  The function runs to its return in one step: it is      *)
(* synchronous up to the call of http.request, and the callback that       *)
(* getAttachment defers with Promise.resolve().then runs before any event  *)
(* of the transport.  ms is the timeout the executor passes to             *)
(* req.setTimeout.                                                         *)
(***************************************************************************)
Record(style, a, out, ms) ==
    /\ calls' = Append(calls, [style |-> style, op |-> a.op, args |-> a,
                               statusCodes |-> IF style = "free"
                                               THEN FreeParam(a).statusCodes
                                               ELSE CouchParam(a).statusCodes,
                               returned |-> out.returned, invoked |-> out.invoked,
                               options |-> out.options,
                               streaming |-> a.op = "getAttachment"])
    /\ promise' = Append(promise, out.promise)
    /\ inner' = Append(inner, IF a.op = "getAttachment" THEN out.promise ELSE Pending)
    /\ req' = Append(req, [timeout |-> IF out.invoked THEN ms ELSE 0,
                           aborted |-> FALSE, errored |-> FALSE,
                           written |-> out.written, ended |-> out.ended,
                           ends |-> IF out.ended THEN 1 ELSE 0,
                           upload |-> out.upload, emitted |-> 0,
                           sourceEnded |-> FALSE])
    /\ res' = Append(res, NoResponse)
    /\ sink' = Append(sink, [state |-> IF a.op = "getAttachment" /\ out.invoked
                                       THEN "open" ELSE "none",
                             received |-> <<>>, piped |-> FALSE, listening |-> FALSE,
                             lost |-> FALSE])
    /\ log' = Append(log, <<>>)

\* a free-function style API function is called
FreeCall(a, legacy) ==
    /\ Record("free", a, FreeOutcome(a, legacy), requestTimeout)
    /\ UNCHANGED <<requestTimeout, result, client>>

\* a method of the client is called
CouchCall(a, legacy) ==
    /\ client.state = "built"
    /\ Record("factory", a, CouchOutcome(client.httpOptions, a, legacy),
              client.config.requestTimeout)
    /\ client' = [client EXCEPT !.httpOptions = CouchShared(client.httpOptions, a, legacy)]
    /\ UNCHANGED <<requestTimeout, result>>

\* module.exports(opt) of the factory style
Factory(opt) ==
    /\ client.state = "none"
    /\ client' = IF couch_configError(Config(opt))
                 THEN [NoClient EXCEPT !.state = "threw"]
                 ELSE [state |-> "built", config |-> Config(opt),
                       httpOptions |-> couch_httpOptions(Config(opt)), opt |-> opt]
    /\ UNCHANGED <<requestTimeout, result, calls, promise, inner, req, res, sink, log>>

\* a setTimeout that stores any number
setTimeout_anyNumber(t) ==
    /\ requestTimeout' = IF t.isNumber /\ ~t.nan THEN t.n ELSE requestTimeout
    /\ result' = [by |-> "setTimeout", arg |-> t, value |-> requestTimeout']
    /\ UNCHANGED <<client, calls, promise, inner, req, res, sink, log>>

\* setTimeout(t) of the free-function style.  t is [isNumber, nan, n]: typeof t
\* is 'number', t is NaN (or Number(t) is, for what is no number), and its
\* value otherwise; t >= 0 is false for NaN
setTimeout(t) ==
    /\ requestTimeout' = IF t.isNumber /\ ~t.nan /\ t.n >= 0 THEN t.n
                         ELSE requestTimeout
    /\ result' = [by |-> "setTimeout", arg |-> t, value |-> requestTimeout']
    /\ UNCHANGED <<client, calls, promise, inner, req, res, sink, log>>

\* getTimeout() of the free-function style
getTimeout ==
    /\ result' = [by |-> "getTimeout", arg |-> NoResult.arg, value |-> requestTimeout]
    /\ UNCHANGED <<requestTimeout, client, calls, promise, inner, req, res, sink, log>>

\* the caller assigns opt.requestTimeout = ms on the object it passed to the
\* factory; config is the copy Object.assign made at construction
MutateOptions(ms) ==
    /\ client.state = "built"
    /\ client.opt.requestTimeout # ms \/ ~client.opt.hasTimeout
    /\ client' = [client EXCEPT !.opt = Options(@.baseUrl, TRUE, ms)]
    /\ UNCHANGED <<requestTimeout, result, calls, promise, inner, req, res, sink, log>>

(***************************************************************************)
(* The inputs of the model.                                                *)
(***************************************************************************)
\* 0, 5, -1, NaN, the string '7' and a missing argument
TimeoutArgs ==
    { [isNumber |-> TRUE, nan |-> FALSE, n |-> 0],
      [isNumber |-> TRUE, nan |-> FALSE, n |-> 5],
      [isNumber |-> TRUE, nan |-> FALSE, n |-> -1],
      [isNumber |-> TRUE, nan |-> TRUE, n |-> 0],
      [isNumber |-> FALSE, nan |-> FALSE, n |-> 7],
      [isNumber |-> FALSE, nan |-> TRUE, n |-> 0] }

FactoryOptions ==
    { Options(b, FALSE, 0) : b \in BaseUrls \cup {MissingUrl} }
    \cup { Options(PlainUrl, TRUE, ms) : ms \in {0, 5} }

\* the calls of the specification of the wire requests
FreeWireArgs ==
    { Args("getDocument", b, "doc", Undefined, UndefinedValue, NoSink) : b \in BaseUrls }
    \cup { Args("createDocument", b, "doc", Undefined, ObjectValue, NoSink) :
             b \in {PlainUrl, NoPortUrl} }
    \cup { Args("createDocument", PlainUrl, Undefined, Undefined, d, NoSink) :
             d \in PostDataValues }
    \cup { Args("addAttachment", PlainUrl, "doc", Undefined, d, NoSink) :
             d \in {BufferValue, StringValue, StreamValue} }
    \cup { Args("getAttachment", PlainUrl, "doc", Undefined, UndefinedValue, s) :
             s \in {ValidSink, InvalidSink} }
    \cup { Args("createDocument", BadUrl, Undefined, Undefined, d, NoSink) :
             d \in {NumberValue, CyclicValue} }

CouchWireArgs ==
    { Args("getDocument", MissingUrl, "doc", Undefined, UndefinedValue, NoSink),
      Args("createDocument", MissingUrl, "doc", Undefined, ObjectValue, NoSink) }
    \cup { Args("createDocument", MissingUrl, Undefined, Undefined, d, NoSink) :
             d \in PostDataValues }
    \cup { Args("addAttachment", MissingUrl, "doc", Undefined, d, NoSink) :
             d \in {BufferValue, StringValue, StreamValue} }
    \cup { Args("getAttachment", MissingUrl, "doc", Undefined, UndefinedValue, s) :
             s \in {ValidSink, InvalidSink} }
    \cup { Args("copyDocument", MissingUrl, d, n, UndefinedValue, NoSink) :
             d \in {"doc", ""}, n \in {"copy", Undefined} }

(***************************************************************************)
(* WireSpec: calls made one after another, on both styles, up to the       *)
(* request each hands to the transport.                                    *)
(***************************************************************************)
WireNext ==
    \/ \E opt \in FactoryOptions : Factory(opt)
    \/ \E a \in FreeWireArgs, legacy \in BOOLEAN :
          Len(calls) < MaxCalls /\ FreeCall(a, legacy)
    \/ \E a \in CouchWireArgs, legacy \in BOOLEAN :
          Len(calls) < MaxCalls /\ CouchCall(a, legacy)

WireSpec == Init /\ [][WireNext]_vars

(***************************************************************************)
(* PathSpec: one call whose names and query object are drawn from the sets *)
(* below, up to the path of the request it hands to the transport.         *)
(***************************************************************************)
\* every query object of at most MaxKeys properties, over the four keys of
\* QUERY_KEYS_JSON and one other key
QueryObjects ==
    LET pairs == { <<k, v>> : k \in {"key", "keys", "startkey", "endkey", "limit"},
                              v \in QueryValues }
    IN  { q \in UNION { [1..n -> pairs] : n \in 0..MaxKeys } :
            \A i, j \in DOMAIN q : i # j => q[i][1] # q[j][1] }

\* a plain name and names that hold a '/', a '?' and a '#'
Names == {"doc", "a/b", "a?b", "a#b"}

FreePathArgs ==
    { [Args("getView", b, d, Undefined, UndefinedValue, NoSink)
          EXCEPT !.dbName = n, !.viewName = v] :
        b \in {PlainUrl, SlashUrl}, n \in Names, d \in Names, v \in Names }
    \cup { [Args("getView", PlainUrl, "doc", Undefined, UndefinedValue, NoSink)
              EXCEPT !.queryObj = q] : q \in QueryObjects }
    \cup { [Args("addAttachment", PlainUrl, d, Undefined, BufferValue, NoSink)
              EXCEPT !.dbName = n, !.attName = v] :
             n \in Names, d \in Names, v \in Names }
    \cup { [Args(op, PlainUrl, d, Undefined, ObjectValue, NoSink) EXCEPT !.dbName = n] :
             op \in {"getDocument", "createDocument"}, n \in Names, d \in Names }

CouchPathArgs ==
    { [Args("getView", MissingUrl, d, Undefined, UndefinedValue, NoSink)
          EXCEPT !.dbName = n, !.viewName = v] :
        n \in Names, d \in Names, v \in Names }
    \cup { [Args("getView", MissingUrl, "doc", Undefined, UndefinedValue, NoSink)
              EXCEPT !.queryObj = q] : q \in QueryObjects }
    \cup { [Args("deleteIndex", MissingUrl, d, Undefined, UndefinedValue, NoSink)
              EXCEPT !.dbName = n, !.name = v] :
             n \in Names, d \in Names, v \in Names }
    \cup { [Args("addAttachment", MissingUrl, d, Undefined, BufferValue, NoSink)
              EXCEPT !.dbName = n, !.attName = v] :
             n \in Names, d \in Names, v \in Names }
    \cup { [Args(op, MissingUrl, d, Undefined, ObjectValue, NoSink) EXCEPT !.dbName = n] :
             op \in {"getDocument", "createDocument"}, n \in Names, d \in Names }
    \cup { [Args("copyDocument", MissingUrl, d, "copy", UndefinedValue, NoSink)
              EXCEPT !.dbName = n] : n \in Names, d \in Names }

PathNext ==
    \/ calls = <<>> /\ Factory(Options(PlainUrl, FALSE, 0))
    \/ \E a \in FreePathArgs : calls = <<>> /\ FreeCall(a, FALSE)
    \/ \E a \in CouchPathArgs : calls = <<>> /\ CouchCall(a, FALSE)

PathSpec == Init /\ [][PathNext]_vars

(***************************************************************************)
(* The transport's side of a call: what the server sends and what the      *)
(* socket reports.  A body is the sequence of chunks the response delivers *)
(* in its data events.                                                     *)
(***************************************************************************)
EmptyBody == <<>>
OkBody == <<"{\"ok\":", "true}">>
NotFoundBody == <<"{\"error\":\"not_found\"}">>
HtmlBody == <<"<html>">>

ResponseBodies == {EmptyBody, OkBody, NotFoundBody, HtmlBody}

ResponseHeaders == {<<"server", "CouchDB">>, <<"content-type", "application/json">>}

\* the err objects of the request's and the sink's error events
TransportErrors == {[message |-> "connect ECONNREFUSED"], [message |-> ""]}

SinkErrors == {[message |-> "ENOSPC: no space left on device"]}

\* JSON.parse(text), text being the concatenation of the chunks
JSONParse(text) ==
    CASE text = <<"{}">> -> [ok |-> TRUE, value |-> Data("json", "{}"), message |-> ""]
      [] text = OkBody -> [ok |-> TRUE, value |-> Data("json", "{ok:true}"), message |-> ""]
      [] text = NotFoundBody ->
            [ok |-> TRUE, value |-> Data("json", "{error:not_found}"), message |-> ""]
      [] text = <<"{\"_rev\":\"1-abc\"}">> ->
            [ok |-> TRUE, value |-> Data("json", "{_rev:1-abc}"), message |-> ""]
      [] text = <<"{\"_rev\":\"2-def\"}">> ->
            [ok |-> TRUE, value |-> Data("json", "{_rev:2-def}"), message |-> ""]
      [] text = <<"{\"ok\":">> ->
            [ok |-> FALSE, value |-> NoData, message |-> "Unexpected end of JSON input"]
      [] OTHER ->
            [ok |-> FALSE, value |-> NoData, message |-> "Unexpected token < in JSON"]

\* a parse of the buffer as it is
BufferOrEmptyObject_asIs(buffer) == buffer

\* buffer || '{}'
BufferOrEmptyObject(buffer) == IF buffer = <<>> THEN <<"{}">> ELSE buffer

(***************************************************************************)
(* The handlers of request, free-function style (lines 142-181).           *)
(***************************************************************************)
\* ret of the 'end' handler
request_onEnd(statusCodes, r) ==
    LET p == JSONParse(BufferOrEmptyObject(r.buffer))
    IN  IF p.ok
        THEN Envelope(r.headers, p.value, r.status, statusMessage(statusCodes, r.status))
        ELSE Envelope(r.headers, Data("Error", p.message), 500,
                      Or(p.message, "internal error"))

\* line 160: return resolve(ret)
request_settle(p, ret) == Settle(p, "fulfilled", ret)

request_onTimeout ==
    Envelope(NoHeaders, Data("Error", "request timed out"), 500,
             "Error: request timed out")

\* an error handler that reports no cause
request_onError_noCause(err) ==
    Envelope(NoHeaders, NoData, 500, "internal error")

request_onError(err) ==
    Envelope(NoHeaders, Data("Error", err.message), 500,
             Or(err.message, "internal error"))

(***************************************************************************)
(* The handlers of request, factory style (lines 976-1023).                *)
(***************************************************************************)
couch_request_onEnd(statusCodes, r) ==
    LET p == JSONParse(BufferOrEmptyObject(r.buffer))
    IN  IF p.ok
        THEN Envelope(r.headers, p.value, r.status, statusCode(statusCodes, r.status))
        ELSE Envelope(r.headers, Data("errorObject", p.message), 500,
                      Or(p.message, "internal error"))

\* lines 996-1000: if (ret.status < 400) resolve(ret) else reject(ret)
couch_request_settle(p, ret) ==
    IF ret.status < 400 THEN Settle(p, "fulfilled", ret) ELSE Settle(p, "rejected", ret)

couch_request_onTimeout ==
    Envelope(NoHeaders, Data("errorObject", "request timed out"), 500,
             "Error: request timed out")

couch_request_onError(err) ==
    Envelope(NoHeaders, Data("errorObject", err.message), 500,
             Or(err.message, "internal error"))

(***************************************************************************)
(* The handlers of requestStream (lines 230-262 and 1054-1089) and of      *)
(* getAttachment (lines 725-739 and 1559-1571).                            *)
(***************************************************************************)
requestStream_onResponse(statusCodes, r) ==
    StreamEnvelope(r.headers, r.status, statusMessage(statusCodes, r.status))

couch_requestStream_onResponse(statusCodes, r) ==
    StreamEnvelope(r.headers, r.status, statusCode(statusCodes, r.status))

\* a response callback that resolves whatever the status
requestStream_settle_always(p, ret) == Settle(p, "fulfilled", ret)

\* if (ret.status < 400) resolve(ret) else reject(ret)
requestStream_settle(p, ret) ==
    IF ret.status < 400 THEN Settle(p, "fulfilled", ret) ELSE Settle(p, "rejected", ret)

getAttachment_onSinkError(err) ==
    Envelope(NoHeaders, Data("Error", err.message), 500, Or(err.message, "stream error"))

couch_getAttachment_onSinkError(err) ==
    Envelope(NoHeaders, Data("errorObject", err.message), 500,
             Or(err.message, "stream error"))

\* the promise getAttachment returned follows the promise of requestStream: a
\* rejection of that one rejects it; its fulfilment runs the callback that
\* registers the listeners on the sink
getAttachment_follow(outer, before, after) ==
    IF before.state = "pending" /\ after.state = "rejected"
    THEN Settle(outer, "rejected", after.value)
    ELSE outer

(***************************************************************************)
(* The events of a call in flight.  Each action is one event with the      *)
(* handlers the code registered for it; the reaction of a promise chain to *)
(* a settlement is part of the step, since it runs before the next event.  *)
(***************************************************************************)
Logged(c, ev, ret) == [log EXCEPT ![c] = Append(@, [ev |-> ev, ret |-> ret])]

\* the response callback of http.request: the status line and headers arrived.
\* On the buffered path it only registers the data and end handlers; on the
\* streaming path it pipes the response into the sink and settles.
Response(c, status, body) ==
    /\ c \in DOMAIN calls
    /\ calls[c].invoked
    /\ res[c].phase = "none"
    /\ ~req[c].aborted /\ ~req[c].errored
    /\ res' = [res EXCEPT ![c] = [phase |-> "open", status |-> status,
                                  headers |-> ResponseHeaders, body |-> body,
                                  got |-> 0, buffer |-> <<>>]]
    /\ IF calls[c].streaming THEN
            LET ret == IF calls[c].style = "free"
                       THEN requestStream_onResponse(calls[c].statusCodes, res'[c])
                       ELSE couch_requestStream_onResponse(calls[c].statusCodes, res'[c])
                after == requestStream_settle(inner[c], ret)
            IN  /\ Len(log[c]) < MaxEvents
                /\ inner' = [inner EXCEPT ![c] = after]
                /\ promise' = [promise EXCEPT
                                 ![c] = getAttachment_follow(@, inner[c], after)]
                /\ sink' = [sink EXCEPT
                              ![c].piped = TRUE,
                              ![c].listening = (inner[c].state = "pending"
                                                /\ after.state = "fulfilled")]
                /\ log' = Logged(c, "response", ret)
        ELSE UNCHANGED <<inner, promise, sink, log>>
    /\ UNCHANGED <<requestTimeout, result, client, calls, req>>

\* a 'data' event of the response: buffer += data, or the pipe writes the chunk
ResData(c) ==
    /\ c \in DOMAIN calls
    /\ res[c].phase = "open"
    /\ res[c].got < Len(res[c].body)
    /\ ~req[c].aborted /\ ~req[c].errored
    /\ LET chunk == res[c].body[res[c].got + 1]
       IN  IF calls[c].streaming THEN
               /\ res' = [res EXCEPT ![c].got = @ + 1]
               /\ sink' = [sink EXCEPT ![c].received =
                               IF sink[c].state = "open" /\ sink[c].piped
                               THEN Append(@, chunk) ELSE @]
           ELSE
               /\ res' = [res EXCEPT ![c].got = @ + 1, ![c].buffer = Append(@, chunk)]
               /\ UNCHANGED sink
    /\ UNCHANGED <<requestTimeout, result, client, calls, promise, inner, req, log>>

\* the 'end' event of the response: after the last chunk, or after the socket
\* was destroyed under a response in progress.  On the buffered path the
\* handler parses the buffer and settles; on the streaming path the pipe ends
\* the sink.
ResEnd(c) ==
    /\ c \in DOMAIN calls
    /\ res[c].phase \in {"open", "ended"}
    /\ res[c].got = Len(res[c].body) \/ req[c].aborted \/ req[c].errored
    /\ res' = [res EXCEPT ![c].phase = "ended"]
    /\ IF calls[c].streaming THEN
            /\ res[c].phase = "open"
            /\ sink' = [sink EXCEPT ![c].state =
                            IF @ = "open" /\ sink[c].piped THEN "finished" ELSE @]
            /\ UNCHANGED <<promise, log>>
        ELSE
            LET ret == IF calls[c].style = "free"
                       THEN request_onEnd(calls[c].statusCodes, res[c])
                       ELSE couch_request_onEnd(calls[c].statusCodes, res[c])
            IN  /\ Len(log[c]) < MaxEvents
                /\ promise' = [promise EXCEPT ![c] =
                                 IF calls[c].style = "free"
                                 THEN request_settle(@, ret)
                                 ELSE couch_request_settle(@, ret)]
                /\ log' = Logged(c, "end", ret)
                /\ UNCHANGED sink
    /\ UNCHANGED <<requestTimeout, result, client, calls, inner, req>>

\* a timeout callback that rejects without aborting the request
req_abort_skipped(r) == r

\* req.abort()
req_abort(r) == [r EXCEPT !.aborted = TRUE]

\* the socket's idle timer ran out: the callback of req.setTimeout aborts the
\* request and rejects.  A timeout of 0 arms no timer (net.Socket.setTimeout).
Timeout(c) ==
    /\ c \in DOMAIN calls
    /\ calls[c].invoked
    /\ req[c].timeout > 0
    /\ Len(log[c]) < MaxEvents
    /\ LET ret == IF calls[c].style = "free" THEN request_onTimeout
                  ELSE couch_request_onTimeout
       IN  /\ req' = [req EXCEPT ![c] = req_abort(@)]
           /\ log' = Logged(c, "timeout", ret)
           /\ IF calls[c].streaming THEN
                   LET after == Settle(inner[c], "rejected", ret)
                   IN  /\ inner' = [inner EXCEPT ![c] = after]
                       /\ promise' = [promise EXCEPT
                                        ![c] = getAttachment_follow(@, inner[c], after)]
               ELSE
                   /\ promise' = [promise EXCEPT ![c] = Settle(@, "rejected", ret)]
                   /\ UNCHANGED inner
    /\ UNCHANGED <<requestTimeout, result, client, calls, res, sink>>

\* the 'error' event of the request
TransportError(c, err) ==
    /\ c \in DOMAIN calls
    /\ calls[c].invoked
    /\ Len(log[c]) < MaxEvents
    /\ LET ret == IF calls[c].style = "free" THEN request_onError(err)
                  ELSE couch_request_onError(err)
       IN  /\ req' = [req EXCEPT ![c].errored = TRUE]
           /\ log' = Logged(c, "error", ret)
           /\ IF calls[c].streaming THEN
                   LET after == Settle(inner[c], "rejected", ret)
                   IN  /\ inner' = [inner EXCEPT ![c] = after]
                       /\ promise' = [promise EXCEPT
                                        ![c] = getAttachment_follow(@, inner[c], after)]
               ELSE
                   /\ promise' = [promise EXCEPT ![c] = Settle(@, "rejected", ret)]
                   /\ UNCHANGED inner
    /\ UNCHANGED <<requestTimeout, result, client, calls, res, sink>>

\* the sink emits 'close', after it finished or failed: the listener that
\* getAttachment registered, if it is registered yet, resolves with the response
SinkClose(c) ==
    /\ c \in DOMAIN calls
    /\ sink[c].state \in {"finished", "errored"}
    /\ Len(log[c]) < MaxEvents
    /\ sink' = [sink EXCEPT ![c].state = "closed"]
    /\ log' = Logged(c, "close", inner[c].value)
    /\ promise' = [promise EXCEPT ![c] =
                     IF sink[c].listening THEN Settle(@, "fulfilled", inner[c].value)
                     ELSE @]
    /\ UNCHANGED <<requestTimeout, result, client, calls, inner, req, res>>

\* the sink emits 'error': the listener that getAttachment registered, if it is
\* registered yet, rejects; before that the call has no listener and the error
\* is lost to it
SinkError(c, err) ==
    /\ c \in DOMAIN calls
    /\ sink[c].state \in {"open", "finished"}
    /\ Len(log[c]) < MaxEvents
    /\ LET ret == IF calls[c].style = "free" THEN getAttachment_onSinkError(err)
                  ELSE couch_getAttachment_onSinkError(err)
       IN  /\ sink' = [sink EXCEPT ![c].state = "errored",
                                   ![c].lost = ~sink[c].listening]
           /\ log' = Logged(c, "sinkerror", ret)
           /\ promise' = [promise EXCEPT ![c] =
                            IF sink[c].listening THEN Settle(@, "rejected", ret) ELSE @]
    /\ UNCHANGED <<requestTimeout, result, client, calls, inner, req, res>>

(***************************************************************************)
(* The payload stream of a call: the listeners request registers on it     *)
(* (lines 188-193 and 1030-1035).  The stream emits its chunks, the k-th   *)
(* being the text of k, and then 'end', once.                              *)
(***************************************************************************)
\* a 'data' event of the payload stream: req.write(chunk)
StreamData(c) ==
    /\ c \in DOMAIN calls
    /\ req[c].upload
    /\ ~req[c].sourceEnded
    /\ req[c].emitted < MaxChunks
    /\ req' = [req EXCEPT ![c].emitted = @ + 1,
                          ![c].written = Append(@, ToString(req[c].emitted + 1))]
    /\ UNCHANGED <<requestTimeout, result, client, calls, promise, inner, res, sink, log>>

\* the 'end' event of the payload stream: req.end()
StreamEnd(c) ==
    /\ c \in DOMAIN calls
    /\ req[c].upload
    /\ ~req[c].sourceEnded
    /\ req' = [req EXCEPT ![c].sourceEnded = TRUE, ![c].ended = TRUE,
                          ![c].ends = @ + 1]
    /\ UNCHANGED <<requestTimeout, result, client, calls, promise, inner, res, sink, log>>

(***************************************************************************)
(* UploadSpec: one call with a payload of each kind, the events of its     *)
(* payload stream, and the timeout and the error of its request, in every  *)
(* order.                                                                  *)
(***************************************************************************)
UploadArgs ==
    { Args("addAttachment", PlainUrl, "doc", Undefined, d, NoSink) :
        d \in {StreamValue, BufferValue, StringValue, EmptyString} }
    \cup { Args("createDocument", PlainUrl, Undefined, Undefined, ObjectValue, NoSink) }

UploadNext ==
    \/ calls = <<>> /\ Factory(Options(PlainUrl, FALSE, 0))
    \/ \E a \in UploadArgs : calls = <<>> /\ client.state = "none" /\ FreeCall(a, FALSE)
    \/ \E a \in UploadArgs : calls = <<>> /\ CouchCall(a, FALSE)
    \/ \E c \in DOMAIN calls : StreamData(c)
    \/ \E c \in DOMAIN calls : StreamEnd(c)
    \/ \E c \in DOMAIN calls : Timeout(c)
    \/ \E c \in DOMAIN calls : TransportError(c, [message |-> "connect ECONNREFUSED"])

UploadSpec == Init /\ [][UploadNext]_vars

(***************************************************************************)
(* Spec: the life of one call, of either style and either path, with the   *)
(* events of the transport and of the sink in every order.  The events of  *)
(* a call read and write the state of that call only, so the calls of a    *)
(* program are so many instances of this one.  A run configures one style  *)
(* (setTimeout, or the factory) and then makes the call.                   *)
(***************************************************************************)
FreeArgs ==
    { Args("getDocument", PlainUrl, "doc", Undefined, UndefinedValue, NoSink),
      Args("createDocument", PlainUrl, Undefined, Undefined, ObjectValue, NoSink),
      Args("getAttachment", PlainUrl, "doc", Undefined, UndefinedValue, ValidSink),
      Args("getAttachment", PlainUrl, "doc", Undefined, UndefinedValue, InvalidSink) }

CouchArgs ==
    { Args("getDocument", MissingUrl, "doc", Undefined, UndefinedValue, NoSink),
      Args("createDocument", MissingUrl, Undefined, Undefined, ObjectValue, NoSink),
      Args("getAttachment", MissingUrl, "doc", Undefined, UndefinedValue, ValidSink),
      Args("getAttachment", MissingUrl, "doc", Undefined, UndefinedValue, InvalidSink) }

Next ==
    \/ \E t \in {x \in TimeoutArgs : x.isNumber /\ ~x.nan /\ x.n >= 0} :
          calls = <<>> /\ client.state = "none" /\ setTimeout(t)
    \/ \E opt \in FactoryOptions :
          calls = <<>> /\ requestTimeout = InitialRequestTimeout /\ Factory(opt)
    \/ \E a \in FreeArgs : calls = <<>> /\ client.state = "none" /\ FreeCall(a, FALSE)
    \/ \E a \in CouchArgs : calls = <<>> /\ CouchCall(a, FALSE)
    \/ \E c \in DOMAIN calls, status \in ResponseStatuses, body \in ResponseBodies :
          Response(c, status, body)
    \/ \E c \in DOMAIN calls : ResData(c)
    \/ \E c \in DOMAIN calls : ResEnd(c)
    \/ \E c \in DOMAIN calls : Timeout(c)
    \/ \E c \in DOMAIN calls, err \in TransportErrors : TransportError(c, err)
    \/ \E c \in DOMAIN calls : SinkClose(c)
    \/ \E c \in DOMAIN calls, err \in SinkErrors : SinkError(c, err)

Spec == Init /\ [][Next]_vars

(***************************************************************************)
(* TimeoutSpec: the timeout setting changes between calls and under calls  *)
(* in flight.  setTimeout changes the module variable; on the factory      *)
(* style the caller can only change the options object it passed in.       *)
(***************************************************************************)
TimeoutCallArgs ==
    { Args("getDocument", PlainUrl, "doc", Undefined, UndefinedValue, NoSink) }

TimeoutNext ==
    \/ \E t \in {x \in TimeoutArgs : x.isNumber /\ ~x.nan /\ x.n >= 0} : setTimeout(t)
    \/ \E opt \in FactoryOptions : Factory(opt)
    \/ \E ms \in {0, 5} : MutateOptions(ms)
    \/ \E a \in TimeoutCallArgs : Len(calls) < MaxCalls /\ FreeCall(a, FALSE)
    \/ \E a \in TimeoutCallArgs : Len(calls) < MaxCalls /\ CouchCall(a, FALSE)
    \/ \E c \in DOMAIN calls : Timeout(c)

TimeoutSpec == Init /\ [][TimeoutNext]_vars

(***************************************************************************)
(* SettingSpec: setTimeout with every kind of argument and getTimeout, in  *)
(* every order, between calls of the free-function style.                  *)
(***************************************************************************)
SettingNext ==
    \/ \E t \in TimeoutArgs : setTimeout(t)
    \/ getTimeout
    \/ \E a \in TimeoutCallArgs : Len(calls) < MaxCalls /\ FreeCall(a, FALSE)

SettingSpec == Init /\ [][SettingNext]_vars

(***************************************************************************)
(* ConcurrentSpec: several calls of one style in flight at once, on the    *)
(* module or on one client, each answered, timed out or failed in every    *)
(* order relative to the others, up to the settlement of its promise.  A   *)
(* server answers 200 with the ok body or 404 with the not_found body.     *)
(***************************************************************************)
InFlight(c) == calls[c].invoked /\ promise[c].state = "pending"

ConcurrentArgs ==
    { Args("getDocument", PlainUrl, "doc", Undefined, UndefinedValue, NoSink),
      Args("createDocument", PlainUrl, Undefined, Undefined, ObjectValue, NoSink) }

ConcurrentNext ==
    \/ calls = <<>> /\ Factory(Options(PlainUrl, FALSE, 0))
    \/ \E a \in ConcurrentArgs :
          Len(calls) < MaxCalls /\ client.state = "none" /\ FreeCall(a, FALSE)
    \/ \E a \in ConcurrentArgs : Len(calls) < MaxCalls /\ CouchCall(a, FALSE)
    \/ \E c \in DOMAIN calls :
          InFlight(c) /\ (Response(c, 200, OkBody) \/ Response(c, 404, NotFoundBody))
    \/ \E c \in DOMAIN calls : InFlight(c) /\ ResData(c)
    \/ \E c \in DOMAIN calls : InFlight(c) /\ ResEnd(c)
    \/ \E c \in DOMAIN calls : InFlight(c) /\ Timeout(c)
    \/ \E c \in DOMAIN calls :
          InFlight(c) /\ TransportError(c, [message |-> "connect ECONNREFUSED"])

ConcurrentSpec == Init /\ [][ConcurrentNext]_vars

(***************************************************************************)
(* The example workflow (src/unnamed/part_000): one chain of promises on   *)
(* the free-function style.  A link of the chain that makes a call runs    *)
(* when the promise of the call before it is fulfilled; a rejection skips  *)
(* every later link and reaches the final catch.                           *)
(***************************************************************************)
MONTHS ==
    <<"January", "February", "March", "April", "Mai", "June", "July", "August",
      "September", "October", "November", "December">>

\* {name: month, number: idx + 1} for the month at idx + 1 = k
MonthDocument(k) ==
    LET text == "{\"name\":\"" \o MONTHS[k] \o "\",\"number\":" \o ToString(k) \o "}"
    IN  JsValue("object", TRUE, FALSE, text, Len(text), Len(text))

\* response.data._rev
Rev(data) ==
    CASE data = Data("json", "{_rev:1-abc}") -> "1-abc"
      [] data = Data("json", "{_rev:2-def}") -> "2-def"
      [] OTHER -> Undefined

\* the k-th call the example makes; response is what the call before it was
\* fulfilled with
ExampleCall(k, response) ==
    LET n == Len(MONTHS)
        call(op, docId, data) ==
            [Args(op, PlainUrl, docId, Undefined, data, NoSink)
                EXCEPT !.dbName = "testdb_1"]
    IN  CASE k = 1 -> call("createDatabase", Undefined, UndefinedValue)
          [] k \in 2..(n + 1) -> call("createDocument", Undefined, MonthDocument(k - 1))
          [] k = n + 2 ->
                call("createDesignDocument", "ddoc1",
                     JsValue("object", TRUE, FALSE,
                             "{\"language\":\"javascript\",\"views\":{\"all\":{\"map\":\"function (doc) {emit(doc.name, doc.number)}\"}}}",
                             95, 95))
          [] k = n + 3 -> call("getDesignDocument", "ddoc1", UndefinedValue)
          [] k = n + 4 -> call("getDesignDocumentInfo", "ddoc1", UndefinedValue)
          [] k = n + 5 ->
                [call("getView", "ddoc1", UndefinedValue)
                    EXCEPT !.viewName = "all",
                           !.queryObj = << <<"decending", QueryValue("boolean", <<"true">>, <<>>)>>,
                                           <<"limit", QueryValue("number", <<"3">>, <<>>)>> >>]
          [] k = n + 6 -> call("getDesignDocument", "ddoc1", UndefinedValue)
          [] k = n + 7 ->
                [call("deleteDesignDocument", "ddoc1", UndefinedValue)
                    EXCEPT !.rev = Rev(response.data)]
          [] k = n + 8 -> call("deleteDatabase", Undefined, UndefinedValue)

\* a chain that runs its k-th link without waiting
ExampleReady_atOnce(k) == TRUE

\* .then(...): the link that makes the k-th call runs when the promise of the
\* call before it is fulfilled
ExampleReady(k) == k > 1 => promise[k - 1].state = "fulfilled"

ExampleStep ==
    LET k == Len(calls) + 1
    IN  /\ k <= Len(MONTHS) + 8
        /\ ExampleReady(k)
        /\ FreeCall(ExampleCall(k, IF k > 1 THEN promise[k - 1].value ELSE NoValue),
                    FALSE)

(***************************************************************************)
(* ExampleSpec: the example against a server that answers every request,   *)
(* a create with 201 and the rest with 200, and a getDesignDocument with   *)
(* one of two revisions or with 404; any call can time out or fail.        *)
(***************************************************************************)
RevisionBodies == {<<"{\"_rev\":\"1-abc\"}">>, <<"{\"_rev\":\"2-def\"}">>}

ExampleNext ==
    \/ ExampleStep
    \/ \E c \in DOMAIN calls :
          /\ InFlight(c)
          /\ IF calls[c].op = "getDesignDocument"
             THEN \/ \E body \in RevisionBodies : Response(c, 200, body)
                  \/ Response(c, 404, NotFoundBody)
             ELSE Response(c, IF calls[c].options.method \in {"PUT", "POST"}
                              THEN 201 ELSE 200, OkBody)
    \/ \E c \in DOMAIN calls : InFlight(c) /\ ResData(c)
    \/ \E c \in DOMAIN calls : InFlight(c) /\ ResEnd(c)
    \/ \E c \in DOMAIN calls : InFlight(c) /\ Timeout(c)
    \/ \E c \in DOMAIN calls :
          InFlight(c) /\ TransportError(c, [message |-> "connect ECONNREFUSED"])

ExampleSpec == Init /\ [][ExampleNext]_vars

(***************************************************************************)
(* Properties.                                                             *)
(***************************************************************************)
Buffered(c) == calls[c].invoked /\ ~calls[c].streaming

Streaming(c) == calls[c].invoked /\ calls[c].streaming

HasEvent(c, ev) == \E i \in DOMAIN log[c] : log[c][i].ev = ev

\* C1: a call that reached the network through request is pending until the
\* first of the events end, timeout and error; from then on its promise is
\* settled with the envelope that first event's handler built, whatever
\* events follow and however often.
C1_SettledOnceByFirstEvent ==
    \A c \in DOMAIN calls :
        Buffered(c) =>
            /\ log[c] = <<>> => promise[c] = Pending
            /\ log[c] # <<>> =>
                  /\ promise[c].state \in {"fulfilled", "rejected"}
                  /\ promise[c].value = log[c][1].ret

\* C1 witness: a second handler ran with an envelope other than the first's
C1_Witness ==
    \E c \in DOMAIN calls :
        /\ Buffered(c)
        /\ Len(log[c]) >= 2
        /\ log[c][2].ret # log[c][1].ret
        /\ promise[c].value = log[c][1].ret

\* C2: a response with a well-formed JSON body and a status in 400..599
\* settles the call as a failure: the promise is rejected, with data the
\* parsed body and message the resolved status text.
C2_ErrorStatusRejects ==
    \A c \in DOMAIN calls :
        ( /\ Buffered(c)
          /\ log[c] # <<>>
          /\ log[c][1].ev = "end"
          /\ JSONParse(BufferOrEmptyObject(res[c].buffer)).ok
          /\ res[c].status >= 400 /\ res[c].status <= 599 )
        => /\ promise[c].state = "rejected"
           /\ promise[c].value.data = JSONParse(BufferOrEmptyObject(res[c].buffer)).value
           /\ promise[c].value.message =
                 IF calls[c].style = "free"
                 THEN statusMessage(calls[c].statusCodes, res[c].status)
                 ELSE statusCode(calls[c].statusCodes, res[c].status)

\* C3: when the timeout is the first event of a call in flight, the request
\* is aborted and the promise is rejected with status 500 and 'request timed
\* out'; the error or end events that follow the abort leave that outcome.
C3_TimeoutOutcomeStands ==
    \A c \in DOMAIN calls :
        (Buffered(c) /\ log[c] # <<>> /\ log[c][1].ev = "timeout") =>
            /\ req[c].aborted
            /\ promise[c].state = "rejected"
            /\ promise[c].value.status = 500
            /\ promise[c].value.headers = {}
            /\ promise[c].value.data.v = "request timed out"
            /\ promise[c].value.message = "Error: request timed out"

\* C3 witness: the timeout fired under a response in progress, and an error
\* or an end event followed the abort
C3_Witness ==
    \E c \in DOMAIN calls :
        /\ Buffered(c)
        /\ Len(log[c]) >= 2
        /\ log[c][1].ev = "timeout"
        /\ log[c][2].ev \in {"error", "end"}
        /\ res[c].phase # "none"
        /\ promise[c].value.status = 500

\* C4: a call whose server never responds is never left without a timeout
\* that can fire: for every accepted timeout value, while the call is pending
\* and no response or error has come, the timeout event is enabled.
C4_SilentServerTimesOut ==
    \A c \in DOMAIN calls :
        ( /\ calls[c].invoked
          /\ promise[c].state = "pending"
          /\ res[c].phase = "none"
          /\ log[c] = <<>> )
        => ENABLED Timeout(c)

\* C5: the options a factory style call hands to the transport are those a
\* client fresh from the constructor would hand over for the same arguments:
\* nothing an earlier call set is on them.
C5_CallOwnsItsOptions ==
    \A c \in DOMAIN calls :
        (calls[c].style = "factory" /\ calls[c].invoked) =>
            LET own == CouchOutcome(couch_httpOptions(client.config), calls[c].args,
                                    FALSE).options
            IN  /\ calls[c].options.headers = own.headers
                /\ calls[c].options.method = own.method
                /\ calls[c].options.path = own.path

\* C6: for the same base URL and the same arguments the two styles hand the
\* transport the same hostname, port, path, method, headers and body; a base
\* URL one style accepts the other accepts too.
C6_StylesSendTheSameRequest ==
    \A c \in DOMAIN calls :
        (calls[c].invoked /\ calls[c].op # "copyDocument") =>
            LET base == IF calls[c].style = "free" THEN calls[c].args.baseUrl
                        ELSE client.config.baseUrl
                config == Config(Options(base, FALSE, 0))
                free == FreeOutcome([calls[c].args EXCEPT !.baseUrl = base], FALSE)
                couch == CouchOutcome(couch_httpOptions(config), calls[c].args, FALSE)
                other == IF calls[c].style = "free" THEN couch ELSE free
            IN  /\ ~couch_configError(config)
                /\ other.invoked
                /\ other.options.hostname = calls[c].options.hostname
                /\ other.options.port = calls[c].options.port
                /\ other.options.path = calls[c].options.path
                /\ other.options.method = calls[c].options.method
                /\ other.options.headers = calls[c].options.headers
                /\ other.written = req[c].written

\* C7: once the sink of a getAttachment call has emitted an error and the
\* response has arrived, the call has settled as a failure.
C7_SinkErrorSettles ==
    \A c \in DOMAIN calls :
        (Streaming(c) /\ HasEvent(c, "sinkerror") /\ HasEvent(c, "response")) =>
            promise[c].state = "rejected"

\* C8: on the streaming path a timeout or a transport error that comes while
\* the call is pending and the body is not fully piped, headers arrived or
\* not, settles the call as a failure with status 500.
C8_StreamFailureSettles ==
    [][ \A c \in DOMAIN calls :
          ( /\ Streaming(c)
            /\ promise[c].state = "pending"
            /\ sink[c].state = "open"
            /\ Len(log'[c]) = Len(log[c]) + 1
            /\ log'[c][Len(log'[c])].ev \in {"timeout", "error"} )
          => /\ promise'[c].state = "rejected"
             /\ promise'[c].value.status = 500 ]_vars

\* C9: every API call returns a promise, and the promise settles with an
\* envelope that has headers, status and message.
C9_AlwaysAPromiseOfAnEnvelope ==
    \A c \in DOMAIN calls :
        /\ calls[c].returned = "promise"
        /\ promise[c].state # "pending" => IsEnvelope(promise[c].value)

\* C10: a payload that is a number, a boolean, null or an array is rejected
\* with status 400 and 'invalid post data', and the transport is not invoked.
C10_UnencodablePayloadRejected ==
    \A c \in DOMAIN calls :
        calls[c].args.data.kind \in {"number", "boolean", "null", "array"} =>
            /\ ~calls[c].invoked
            /\ calls[c].returned = "promise"
            /\ promise[c].state = "rejected"
            /\ promise[c].value.status = 400
            /\ promise[c].value.message = "invalid post data"

\* C11: a plain object that JSON.stringify cannot serialize is rejected before
\* the network: the call returns a promise rejected with status 400 and the
\* serialization error, nothing is thrown and the transport is not invoked.
C11_CyclicPayloadRejected ==
    \A c \in DOMAIN calls :
        ( /\ calls[c].op = "createDocument"
          /\ calls[c].args.data = CyclicValue
          /\ calls[c].args.baseUrl \in {PlainUrl, MissingUrl} )
        => /\ calls[c].returned = "promise"
           /\ ~calls[c].invoked
           /\ promise[c].state = "rejected"
           /\ promise[c].value.status = 400
           /\ promise[c].value.data.v = "Converting circular structure to JSON"

\* C12: a free-function style call whose URL has a wrong scheme, no '//', a
\* port that is no number or no hostname is rejected with status 400 and
\* 'Bad request' whatever its payload, and the transport is not invoked.
C12_MalformedUrlRejected ==
    \A c \in DOMAIN calls :
        ( /\ calls[c].style = "free"
          /\ calls[c].args.baseUrl \in
                {BadUrl, FtpUrl, NoSlashesUrl, NoHostUrl, BadPortUrl} )
        => /\ ~calls[c].invoked
           /\ calls[c].returned = "promise"
           /\ promise[c].state = "rejected"
           /\ promise[c].value.status = 400
           /\ promise[c].value.data.v = "Bad request"
           /\ promise[c].value.message = "Error: Bad request"

\* C13: when the body that has arrived at the end of the response is no valid
\* JSON, the call is rejected with status 500 and the parse error in data,
\* whatever status the server sent.
C13_ParseFailureRejects ==
    \A c \in DOMAIN calls :
        ( /\ Buffered(c)
          /\ log[c] # <<>>
          /\ log[c][1].ev = "end"
          /\ res[c].buffer \in {HtmlBody, <<"{\"ok\":">>} )
        => /\ promise[c].state = "rejected"
           /\ promise[c].value.status = 500
           /\ promise[c].value.data.v \in
                 {"Unexpected token < in JSON", "Unexpected end of JSON input"}

\* C14: an error event of the request that finds the promise of request (or
\* of requestStream) pending rejects it with status 500, no headers and the
\* error in data; no request is made again.
C14_TransportErrorRejects ==
    [][ \A c \in DOMAIN calls, err \in TransportErrors :
          ( /\ TransportError(c, err)
            /\ (IF calls[c].streaming THEN inner[c] ELSE promise[c]).state = "pending" )
          => /\ (IF calls[c].streaming THEN inner'[c] ELSE promise'[c]).state = "rejected"
             /\ promise'[c].state = "rejected"
             /\ promise'[c].value.status = 500
             /\ promise'[c].value.headers = {}
             /\ "data" \in promise'[c].value.fields
             /\ promise'[c].value.data.v = err.message
             /\ calls' = calls
             /\ req'[c].written = req[c].written ]_vars

\* C14 witness: a connection refused was the first event of a call
C14_Witness ==
    \E c \in DOMAIN calls :
        /\ Buffered(c)
        /\ log[c] # <<>>
        /\ log[c][1].ev = "error"
        /\ promise[c].state = "rejected"
        /\ promise[c].value.data.v = "connect ECONNREFUSED"

\* C15: a change of the timeout setting leaves the timeout of every request
\* in flight as it is, and a call made after the change gets the setting's
\* new value: requestTimeout on the free-function style, the requestTimeout
\* of the options object on the factory style.
C15_TimeoutReadAtCallTime ==
    [][ /\ \A c \in DOMAIN calls : req'[c].timeout = req[c].timeout
        /\ ( Len(calls') = Len(calls) + 1 /\ calls'[Len(calls')].invoked )
           => req'[Len(calls')].timeout =
                IF calls'[Len(calls')].style = "free" THEN requestTimeout
                ELSE IF client.opt.hasTimeout THEN client.opt.requestTimeout
                ELSE DefaultRequestTimeout ]_vars

\* C16: the factory gives a client only for a baseUrl with scheme http or
\* https, '//', a hostname and a numeric port; for any other it throws, and
\* then there is no client, no call of a method and no request.
C16_ClientOnlyFromValidBaseUrl ==
    /\ [] ( /\ client.state = "built" =>
                 /\ client.config.baseUrl \in {PlainUrl, SlashUrl}
                 /\ client.config.baseUrl.protocol \in {"http:", "https:"}
                 /\ client.config.baseUrl.slashes = "true"
                 /\ client.config.baseUrl.hostname \in {"localhost", "couch.example.com"}
                 /\ client.config.baseUrl.port \in {"5984", "6984"}
            /\ client.state # "built" =>
                 /\ client.httpOptions = NoOptions
                 /\ \A c \in DOMAIN calls : calls[c].style # "factory" )
    /\ [][ \A opt \in FactoryOptions :
             (Factory(opt) /\ opt.baseUrl \notin {PlainUrl, SlashUrl})
             => client'.state = "threw" ]_vars

\* C16 witness: the constructor threw
C16_Witness == client.state = "threw" /\ calls = <<>>

\* C17: the response callback of requestStream fulfils its promise for a
\* status below 400 and rejects it otherwise, in both cases with the
\* response's headers, its status and the message of that status, and with
\* no data property.
C17_StreamStatusSettles ==
    \A c \in DOMAIN calls :
        (Streaming(c) /\ log[c] # <<>> /\ log[c][1].ev = "response") =>
            /\ inner[c].state = IF res[c].status < 400 THEN "fulfilled" ELSE "rejected"
            /\ inner[c].value.fields = {"headers", "status", "message"}
            /\ inner[c].value.headers = ResponseHeaders
            /\ inner[c].value.status = res[c].status
            /\ res[c].status = 200 => inner[c].value.message = "OK - Attachment exists"
            /\ res[c].status = 404 => inner[c].value.message =
                  "Not Found - Specified database, document or attchment was not found"
            /\ res[c].status \in {399, 599} => inner[c].value.message = "unknown status"

\* C17 witness: a 404 answered a getAttachment call
C17_Witness ==
    \E c \in DOMAIN calls :
        /\ Streaming(c)
        /\ log[c] # <<>>
        /\ log[c][1].ev = "response"
        /\ res[c].status = 404
        /\ inner[c].state = "rejected"

\* C18: a getAttachment call with a sink that is no writable stream invokes
\* no transport and leaves the client's shared options as they were.
C18_SinkCheckedFirst ==
    [][ ( /\ Len(calls') = Len(calls) + 1
          /\ calls'[Len(calls')].op = "getAttachment"
          /\ calls'[Len(calls')].args.stream = InvalidSink )
        => /\ ~calls'[Len(calls')].invoked
           /\ calls'[Len(calls')].options = NoOptions
           /\ sink'[Len(calls')].state = "none"
           /\ client'.httpOptions = client.httpOptions ]_vars

\* C18 witness: a client's getAttachment was called with an invalid sink
C18_Witness ==
    \E c \in DOMAIN calls :
        /\ calls[c].style = "factory"
        /\ calls[c].op = "getAttachment"
        /\ calls[c].args.stream = InvalidSink
        /\ ~calls[c].invoked
        /\ client.httpOptions.method = Undefined

\* C19: a request with a buffer, stream, object or string payload carries the
\* content-type, content-length and Transfer-Encoding headers of that
\* payload's encoding path and of no other.
C19_OnlyThePathsHeaders ==
    \A c \in DOMAIN calls :
        ( /\ calls[c].invoked
          /\ calls[c].op \in {"createDocument", "addAttachment"}
          /\ calls[c].args.data.kind \in {"buffer", "stream", "object", "string"} )
        => LET d == calls[c].args.data
               ct == IF calls[c].op = "addAttachment" THEN calls[c].args.contentType
                     ELSE IF Truthy(calls[c].args.docId) THEN "application/json"
                     ELSE Undefined
           IN  { h \in calls[c].options.headers :
                   h[1] \in {"content-type", "content-length", "Transfer-Encoding"} }
               = CASE d.kind = "buffer" ->
                        {<<"content-type", ct>>, <<"content-length", ToString(d.bytes)>>}
                   [] d.kind = "stream" ->
                        {<<"content-type", ct>>, <<"Transfer-Encoding", "chunked">>}
                   [] d.kind = "object" ->
                        {<<"content-type", "application/json">>,
                         <<"content-length", ToString(d.bytes)>>}
                   [] d.kind = "string" ->
                        {<<"content-type", ct>>, <<"content-length", ToString(d.chars)>>}

\* C20: the message of a parsed envelope is the entry of the call's table for
\* the response code if it has one, else the entry of GENERIC_STATUS_CODES,
\* else 'unknown status', on both styles alike.
C20_MessageFromTableThenGeneric ==
    \A c \in DOMAIN calls :
        ( /\ Buffered(c)
          /\ log[c] # <<>>
          /\ log[c][1].ev = "end"
          /\ JSONParse(BufferOrEmptyObject(res[c].buffer)).ok )
        => log[c][1].ret.message =
              IF res[c].status \in DOMAIN calls[c].statusCodes
              THEN calls[c].statusCodes[res[c].status]
              ELSE IF res[c].status \in DOMAIN GENERIC_STATUS_CODES
              THEN GENERIC_STATUS_CODES[res[c].status]
              ELSE "unknown status"

\* C21: the query string createQueryString appends to the path of a getView
\* request, in either style, is empty exactly when the query object has no keys,
\* and is otherwise '?' and the key=value fields joined by '&' in the order of
\* the keys, where the value of key, keys, startkey and endkey is the
\* form-encoding of its JSON text (a string in %22 quotes, an array in %5B %5D
\* with %2C between its quoted elements) and the value of any other key is
\* form-encoded without JSON quoting (an array as one field per element)
C21_QueryStringQuotesItsKeys ==
    \A c \in DOMAIN calls :
        calls[c].op = "getView" /\ calls[c].invoked =>
            LET q == calls[c].args.queryObj
                path == calls[c].options.path
                fixed == 10 + IF calls[c].style = "free"
                              THEN Len(calls[c].args.baseUrl.tail) ELSE 0
                sent == SubSeq(path, fixed + 1, Len(path))
                json == {"key", "keys", "startkey", "endkey"}
                field(p) ==
                    CASE p[2].kind = "string" /\ p[1] \in json ->
                            <<p[1], "=", "%22", "a", "%2F", "b", "%22">>
                      [] p[2].kind = "string" /\ p[1] \notin json ->
                            <<p[1], "=", "a", "%2F", "b">>
                      [] p[2].kind = "number" -> <<p[1], "=", "3">>
                      [] p[2].kind = "boolean" -> <<p[1], "=", "true">>
                      [] p[2].kind = "array" /\ p[1] \in json ->
                            <<p[1], "=", "%5B", "%22", "a", "%22", "%2C",
                              "%22", "b", "%22", "%5D">>
                      [] p[2].kind = "array" /\ p[1] \notin json ->
                            <<p[1], "=", "a", "&", p[1], "=", "b">>
            IN  /\ (sent = <<>>) <=> (Len(q) = 0)
                /\ Len(q) > 0 =>
                      sent = <<"?">> \o Join([i \in 1..Len(q) |-> field(q[i])], <<"&">>)

\* a getView request went out whose query object has the key keys with an array
\* and the key limit with a number
C21_Witness ==
    \E c \in DOMAIN calls :
        /\ calls[c].op = "getView" /\ calls[c].invoked
        /\ Len(calls[c].args.queryObj) = 2
        /\ calls[c].args.queryObj[1][1] = "keys"
        /\ calls[c].args.queryObj[1][2].kind = "array"
        /\ calls[c].args.queryObj[2][1] = "limit"
        /\ calls[c].args.queryObj[2][2].kind = "number"
        /\ SubSeq(calls[c].options.path, 11, Len(calls[c].options.path)) =
              <<"?", "keys", "=", "%5B", "%22", "a", "%22", "%2C", "%22", "b", "%22",
                "%5D", "&", "limit", "=", "3">>

\* C22: in the path of every request, of either style, no name the caller
\* supplied (database, document, design document, view, attachment, index)
\* stands raw with its '/', '?' or '#': each stands percent-encoded, the path has
\* no '#', it has a '?' only before a query string, and it has as many '/' as
\* the template of the endpoint (after those of the base URL)
C22_NamesEncodedInPath ==
    \A c \in DOMAIN calls :
        calls[c].invoked =>
            LET a == calls[c].args
                path == calls[c].options.path
                count(seq, pieces) == Cardinality({i \in DOMAIN seq : seq[i] \in pieces})
                names ==
                    CASE a.op \in {"getDocument", "copyDocument"} -> {a.dbName, a.docId}
                      [] a.op = "createDocument" ->
                            IF Truthy(a.docId) THEN {a.dbName, a.docId} ELSE {a.dbName}
                      [] a.op = "addAttachment" -> {a.dbName, a.docId, a.attName}
                      [] a.op = "getView" -> {a.dbName, a.docId, a.viewName}
                      [] a.op = "deleteIndex" -> {a.dbName, a.docId, a.name}
                template ==
                    CASE a.op \in {"getDocument", "copyDocument"} -> 2
                      [] a.op = "createDocument" -> IF Truthy(a.docId) THEN 2 ELSE 1
                      [] a.op = "addAttachment" -> 3
                      [] a.op \in {"getView", "deleteIndex"} -> 5
                escaped(n) ==
                    CASE n = "a/b" -> "a%2Fb"
                      [] n = "a?b" -> "a%3Fb"
                      [] n = "a#b" -> "a%23b"
                      [] OTHER -> n
            IN  /\ count(path, {"a/b", "a?b", "a#b", "#"}) = 0
                /\ \A n \in names : count(path, {escaped(n)}) > 0
                /\ count(path, {"/"}) =
                      template + IF calls[c].style = "free"
                                 THEN count(a.baseUrl.tail, {"/"}) ELSE 0
                /\ count(path, {"?"}) = IF Len(a.queryObj) > 0 THEN 1 ELSE 0

\* a getView request went out for a database name with a '/', a design document
\* id with a '?' and a view name with a '#'
C22_Witness ==
    \E c \in DOMAIN calls :
        /\ calls[c].op = "getView" /\ calls[c].invoked /\ calls[c].style = "free"
        /\ calls[c].args.dbName = "a/b"
        /\ calls[c].args.docId = "a?b"
        /\ calls[c].args.viewName = "a#b"
        /\ calls[c].options.path =
              <<"/", "a%2Fb", "/", "_design", "/", "a%3Fb", "/", "_view", "/", "a%23b">>

\* C23: on the buffered path the envelope of an 'end' handler is built from the
\* chunks the response delivered before it, concatenated in arrival order: no
\* chunk gives '{}', the two chunks of '{"ok":true}' give {ok: true}, the chunk
\* of the not_found body gives its object, and a text that is no JSON (the first
\* chunk alone, the HTML page) gives no data but the parse error; the response
\* has ended then, and a 'data' event builds no envelope and settles nothing
C23_DataParsedFromWholeBodyAtEnd ==
    /\ [](\A c \in DOMAIN calls :
            Buffered(c) =>
                \A i \in DOMAIN log[c] :
                    log[c][i].ev = "end" =>
                        LET received == SubSeq(res[c].body, 1, res[c].got)
                            ret == log[c][i].ret
                        IN  /\ res[c].phase = "ended"
                            /\ received = <<>> => ret.data = Data("json", "{}")
                            /\ received = <<"{\"ok\":", "true}">> =>
                                  ret.data = Data("json", "{ok:true}")
                            /\ received = <<"{\"error\":\"not_found\"}">> =>
                                  ret.data = Data("json", "{error:not_found}")
                            /\ received \in {<<"{\"ok\":">>, <<"<html>">>} =>
                                  /\ ret.status = 500
                                  /\ ret.data.kind \in {"Error", "errorObject"}
                            /\ ret.data.kind = "json" => ret.status = res[c].status)
    /\ [][\A c \in DOMAIN calls :
            res'[c].got # res[c].got => log' = log /\ promise' = promise]_vars

\* a call was fulfilled by the 'end' that followed both chunks of '{"ok":true}'
C23_Witness ==
    \E c \in DOMAIN calls :
        /\ Buffered(c)
        /\ Len(log[c]) = 1 /\ log[c][1].ev = "end"
        /\ res[c].body = OkBody /\ res[c].got = 2
        /\ promise[c].state = "fulfilled"
        /\ promise[c].value.data = Data("json", "{ok:true}")

\* C24: with several calls of one style in flight, each request carries the
\* method, the path and the body of its own call (GET /db/doc without a body
\* for getDocument, POST /db with the document for createDocument), each
\* response buffer holds the chunks of its own response in order, and a promise
\* is settled by the one event of its own call, with the envelope that event
\* built: for an 'end', the status, headers and parsed body of its own response
C24_CallsDoNotInterfere ==
    \A c \in DOMAIN calls :
        calls[c].invoked =>
            /\ calls[c].options.method =
                  IF calls[c].op = "getDocument" THEN "GET" ELSE "POST"
            /\ calls[c].options.path =
                  IF calls[c].op = "getDocument" THEN <<"/", "db", "/", "doc">>
                  ELSE <<"/", "db">>
            /\ req[c].written =
                  IF calls[c].op = "getDocument" THEN <<>> ELSE <<"{\"name\":\"Mai\"}">>
            /\ res[c].buffer = SubSeq(res[c].body, 1, res[c].got)
            /\ promise[c].state = "pending" => log[c] = <<>>
            /\ promise[c].state # "pending" =>
                  /\ Len(log[c]) = 1
                  /\ promise[c].value = log[c][1].ret
                  /\ log[c][1].ev = "end" =>
                        /\ res[c].got = Len(res[c].body)
                        /\ promise[c].value.status = res[c].status
                        /\ promise[c].value.headers = res[c].headers
                        /\ promise[c].value.data =
                              IF res[c].status = 200 THEN Data("json", "{ok:true}")
                              ELSE Data("json", "{error:not_found}")
                  /\ log[c][1].ev # "end" => promise[c].state = "rejected"

\* two calls of one client are in flight together: the first, a getDocument,
\* is still pending with the first chunk of its 200 response, while the
\* second, a createDocument made after it, was answered 404 and is rejected
\* with the not_found body
C24_Witness ==
    /\ Len(calls) = 2
    /\ calls[1].style = "factory" /\ calls[2].style = "factory"
    /\ calls[1].op = "getDocument" /\ calls[2].op = "createDocument"
    /\ promise[1].state = "pending"
    /\ res[1].status = 200 /\ res[1].buffer = <<"{\"ok\":">>
    /\ promise[2].state = "rejected"
    /\ promise[2].value.status = 404
    /\ promise[2].value.data = Data("json", "{error:not_found}")

\* C25: in the free-function style the timeout setting is always a number >= 0
\* (10000, or an argument of setTimeout that was one); setTimeout(t) stores t
\* when t is a number >= 0 and leaves the setting as it is for a negative
\* number, NaN, a string and a missing argument; setTimeout and getTimeout
\* return the setting as it is after the call, and nothing else changes it
C25_TimeoutSettingStaysValid ==
    /\ [](/\ requestTimeout \in {10000, 0, 5}
          /\ result.by = "none" => requestTimeout = 10000
          /\ result.by # "none" => result.value = requestTimeout)
    /\ [][/\ \A t \in TimeoutArgs :
                setTimeout(t) =>
                    /\ requestTimeout' =
                          IF t.isNumber /\ ~t.nan /\ t.n \in {0, 5} THEN t.n
                          ELSE requestTimeout
                    /\ result' = [by |-> "setTimeout", arg |-> t,
                                  value |-> requestTimeout']
          /\ getTimeout =>
                /\ requestTimeout' = requestTimeout
                /\ result'.value = requestTimeout
          /\ requestTimeout' # requestTimeout => \E t \in TimeoutArgs : setTimeout(t)
         ]_vars

\* the setting was 5 when setTimeout(-1) was called: the call returned 5 and
\* the setting is still 5
C25_Witness ==
    /\ result.by = "setTimeout"
    /\ result.arg = [isNumber |-> TRUE, nan |-> FALSE, n |-> -1]
    /\ result.value = 5
    /\ requestTimeout = 5

\* C26: the chunks written to the request of a call with a readable stream as
\* payload are the chunks the stream has emitted so far, in the order of their
\* emission, and req.end was called once if the stream has emitted 'end' and
\* not at all before; for a buffer, an object or a string the body was written
\* in one piece (nothing for the empty string) and req.end called once, within
\* the call; after req.end nothing more is written and req.end is not called
\* again
C26_PayloadWrittenThenEnded ==
    /\ [](\A c \in DOMAIN calls :
            calls[c].invoked =>
                IF calls[c].args.data.kind = "stream" THEN
                    /\ req[c].written = [k \in 1..req[c].emitted |-> ToString(k)]
                    /\ req[c].ends = IF req[c].sourceEnded THEN 1 ELSE 0
                ELSE
                    /\ req[c].written =
                          IF calls[c].args.data.text = "" THEN <<>>
                          ELSE <<calls[c].args.data.text>>
                    /\ req[c].ends = 1
                    /\ req[c].emitted = 0)
    /\ [][\A c \in DOMAIN calls :
            req[c].ends > 0 =>
                req'[c].written = req[c].written /\ req'[c].ends = req[c].ends]_vars

\* the payload stream of a call emitted two chunks and then 'end': both were
\* written in order and the request was ended once, after them
C26_Witness ==
    \E c \in DOMAIN calls :
        /\ calls[c].invoked
        /\ calls[c].args.data.kind = "stream"
        /\ req[c].emitted = 2
        /\ req[c].sourceEnded
        /\ req[c].written = <<"1", "2">>
        /\ req[c].ends = 1

\* C27: in the example at most one request is in flight at any time and a
\* call is made only when the call before it has been fulfilled; the calls are
\* those of the program in its order: createDatabase, the twelve
\* createDocument calls with the months from January to December numbered from
\* 1, createDesignDocument, getDesignDocument, getDesignDocumentInfo, getView,
\* getDesignDocument, deleteDesignDocument and deleteDatabase; and the
\* deleteDesignDocument request carries, as its rev, the _rev of the body the
\* getDesignDocument call just before it was answered with
C27_ExampleRunsInProgramOrder ==
    LET months == <<"January", "February", "March", "April", "Mai", "June", "July",
                    "August", "September", "October", "November", "December">>
        ops == <<"createDatabase">> \o [k \in 1..12 |-> "createDocument"] \o
               <<"createDesignDocument", "getDesignDocument", "getDesignDocumentInfo",
                 "getView", "getDesignDocument", "deleteDesignDocument",
                 "deleteDatabase">>
    IN  /\ Cardinality({c \in DOMAIN calls :
                          calls[c].invoked /\ promise[c].state = "pending"}) <= 1
        /\ Len(calls) <= Len(ops)
        /\ \A c \in DOMAIN calls :
              /\ calls[c].op = ops[c]
              /\ calls[c].invoked
              /\ c > 1 => promise[c - 1].state = "fulfilled"
              /\ c \in 2..13 =>
                    /\ calls[c].options.method = "POST"
                    /\ calls[c].options.path = <<"/", "testdb_1">>
                    /\ req[c].written =
                          << "{\"name\":\"" \o months[c - 1] \o "\",\"number\":" \o
                             ToString(c - 1) \o "}" >>
              /\ c = 19 =>
                    /\ calls[c].options.method = "DELETE"
                    /\ calls[c].options.path =
                          <<"/", "testdb_1", "/", "_design", "/", "ddoc1", "?rev=",
                            CASE res[18].body = <<"{\"_rev\":\"1-abc\"}">> -> "1-abc"
                              [] res[18].body = <<"{\"_rev\":\"2-def\"}">> -> "2-def"
                              [] OTHER -> "undefined">>

\* the example ran to its end: the first getDesignDocument was answered with
\* revision 1-abc, the second with 2-def, deleteDesignDocument was sent with
\* rev=2-def, and deleteDatabase, the twentieth call, is fulfilled
C27_Witness ==
    /\ Len(calls) = 20
    /\ calls[15].op = "getDesignDocument"
    /\ res[15].body = <<"{\"_rev\":\"1-abc\"}">>
    /\ res[18].body = <<"{\"_rev\":\"2-def\"}">>
    /\ calls[19].op = "deleteDesignDocument"
    /\ calls[19].options.path =
          <<"/", "testdb_1", "/", "_design", "/", "ddoc1", "?rev=", "2-def">>
    /\ req[13].written = <<"{\"name\":\"December\",\"number\":12}">>
    /\ promise[20].state = "fulfilled"

====
